---- MODULE Spec2Model ----
(***************************************************************************)
(* rdls: the Hyprland IPC client library (src/hyprland).                    *)
(*                                                                         *)
(*   - EventStream::listen, the generator that connects to .socket2.sock   *)
(*     and yields one io::Result<HyprlandEvent> per record (events.rs);   *)
(*   - DataParser, the comma tokenizer with its typed consumers;           *)
(*   - window_address_serde::deserialize, the JSON address path (mod.rs).  *)
(*                                                                         *)
(* Text is a TLA+ string; a character is a string of length one.  A u64    *)
(* is the big-endian sequence of its base-16 digits without leading zeros  *)
(* (zero is << >>), so that the 64-bit overflow of from_str_radix is the   *)
(* length of that sequence; an i32 is an integer.                          *)
(***************************************************************************)
EXTENDS Integers, Sequences, FiniteSets, TLC

(***************************************************************************)
(* Bounds of the model.                                                    *)
(***************************************************************************)
\* records (chunks) the compositor writes to the event socket in one run
MaxRecords == 2
\* read_line calls of one run (the loop itself never ends)
MaxReads == 2
\* bytes a failing read_line may have taken from the socket before it failed
MaxPartial == 1
\* tokens of a payload handed to a DataParser
MaxTokens == 2
\* command calls in flight at the same time
MaxCalls == 2
\* bytes the first write of a write_all may take when it does not take them all
ShortWrite == 2
\* records written and read in a run of the subscription
MaxSubRecords == 6
MaxEofReads == 5

(***************************************************************************)
(* Result and Option values.                                               *)
(***************************************************************************)
Ok(v) == [ok |-> TRUE, val |-> v]
Err(e) == [ok |-> FALSE, err |-> e]
None == [some |-> FALSE]
Some(v) == [some |-> TRUE, val |-> v]

(***************************************************************************)
(* Strings.                                                                *)
(***************************************************************************)
CharAt(s, i) == SubSeq(s, i, i)

RECURSIVE FindFrom(_, _, _)
\* str::find from position i: the first index at which pat occurs, 0 if none
FindFrom(s, pat, i) ==
    IF i + Len(pat) - 1 > Len(s) THEN 0
    ELSE IF SubSeq(s, i, i + Len(pat) - 1) = pat THEN i
    ELSE FindFrom(s, pat, i + 1)

\* String::pop: removes the last character, whatever it is; no-op when empty
pop(s) == IF Len(s) = 0 THEN s ELSE SubSeq(s, 1, Len(s) - 1)

RECURSIVE FindLastFrom(_, _, _)
FindLastFrom(s, pat, i) ==
    IF i < 1 THEN 0
    ELSE IF SubSeq(s, i, i + Len(pat) - 1) = pat THEN i
    ELSE FindLastFrom(s, pat, i - 1)

\* mutant: rsplit_once, the split at the last occurrence
split_once_Last(s, pat) ==
    IF FindLastFrom(s, pat, Len(s) - Len(pat) + 1) = 0 THEN None
    ELSE Some(<<SubSeq(s, 1, FindLastFrom(s, pat, Len(s) - Len(pat) + 1) - 1),
                SubSeq(s, FindLastFrom(s, pat, Len(s) - Len(pat) + 1) + Len(pat), Len(s))>>)

\* str::split_once: splits at the first occurrence of pat
split_once(s, pat) ==
    LET i == FindFrom(s, pat, 1)
    IN  IF i = 0 THEN None
        ELSE Some(<<SubSeq(s, 1, i - 1), SubSeq(s, i + Len(pat), Len(s))>>)

RECURSIVE split(_, _)
\* str::split(char), collected: n separators give n + 1 tokens, "" gives <<"">>
split(s, c) ==
    LET i == FindFrom(s, c, 1)
    IN  IF i = 0 THEN <<s>>
        ELSE <<SubSeq(s, 1, i - 1)>> \o split(SubSeq(s, i + 1, Len(s)), c)

RECURSIVE trim_start_matches(_, _)
\* str::trim_start_matches: removes every leading repetition of pat
trim_start_matches(s, pat) ==
    IF Len(s) >= Len(pat) /\ SubSeq(s, 1, Len(pat)) = pat
    THEN trim_start_matches(SubSeq(s, Len(pat) + 1, Len(s)), pat)
    ELSE s

(***************************************************************************)
(* Integer parsing: core::num from_str_radix.                              *)
(***************************************************************************)
\* char::to_digit(radix): the digit's value, -1 for None
to_digit(c, radix) ==
    LET lo == FindFrom("0123456789abcdef", c, 1)
        up == FindFrom("ABCDEF", c, 1)
        v == IF lo > 0 THEN lo - 1 ELSE IF up > 0 THEN 9 + up ELSE -1
    IN  IF v >= 0 /\ v < radix THEN v ELSE -1

\* u64::BITS / 4: the base-16 digits of u64::MAX
U64HexDigits == 16
I32Max == 2147483647
I32Min == -2147483647 - 1

RECURSIVE Reverse(_)
Reverse(s) == IF s = << >> THEN << >> ELSE Append(Reverse(Tail(s)), Head(s))

RECURSIVE MulAddLE(_, _, _)
\* little-endian base-16 digits of ds * m + carry
MulAddLE(ds, m, carry) ==
    IF ds = << >>
    THEN IF carry = 0 THEN << >>
         ELSE <<carry % 16>> \o MulAddLE(<< >>, m, carry \div 16)
    ELSE LET v == Head(ds) * m + carry
         IN  <<v % 16>> \o MulAddLE(Tail(ds), m, v \div 16)

\* result * radix + x on a u64 held as big-endian base-16 digits
BigMulAdd(acc, radix, x) == Reverse(MulAddLE(Reverse(acc), radix, x))

RECURSIVE AccU64(_, _, _, _)
AccU64(src, i, radix, acc) ==
    IF i > Len(src) THEN Ok(acc)
    ELSE LET x == to_digit(CharAt(src, i), radix)
         IN  IF x < 0 THEN Err("InvalidDigit")
             ELSE LET r == BigMulAdd(acc, radix, x)
                  IN  IF Len(r) > U64HexDigits THEN Err("PosOverflow")
                      ELSE AccU64(src, i + 1, radix, r)

\* u64::from_str_radix: an optional '+', then digits; '-' is no digit
u64_from_str_radix(src, radix) ==
    IF Len(src) = 0 THEN Err("Empty")
    ELSE IF src = "+" \/ src = "-" THEN Err("InvalidDigit")
    ELSE IF CharAt(src, 1) = "+" THEN AccU64(src, 2, radix, << >>)
    ELSE AccU64(src, 1, radix, << >>)

RECURSIVE AccI32(_, _, _, _, _)
AccI32(src, i, radix, positive, acc) ==
    IF i > Len(src) THEN Ok(acc)
    ELSE LET x == to_digit(CharAt(src, i), radix)
         IN  IF x < 0 THEN Err("InvalidDigit")
             ELSE IF positive
             THEN IF acc > (I32Max - x) \div radix THEN Err("PosOverflow")
                  ELSE AccI32(src, i + 1, radix, positive, acc * radix + x)
             ELSE IF acc < (I32Min + x + (radix - 1)) \div radix
                  THEN Err("NegOverflow")
                  ELSE AccI32(src, i + 1, radix, positive, acc * radix - x)

\* i32::from_str_radix: an optional '+' or '-', then digits
i32_from_str_radix(src, radix) ==
    IF Len(src) = 0 THEN Err("Empty")
    ELSE IF src = "+" \/ src = "-" THEN Err("InvalidDigit")
    ELSE IF CharAt(src, 1) = "+" THEN AccI32(src, 2, radix, TRUE, 0)
    ELSE IF CharAt(src, 1) = "-" THEN AccI32(src, 2, radix, FALSE, 0)
    ELSE AccI32(src, 1, radix, TRUE, 0)

\* mutant: the numeric flags of the wire accepted as well
bool_from_str_Numeric(s) ==
    IF s = "true" \/ s = "1" THEN Ok(TRUE)
    ELSE IF s = "false" \/ s = "0" THEN Ok(FALSE)
    ELSE Err("ParseBoolError")

\* <bool as FromStr>::from_str
bool_from_str(s) ==
    IF s = "true" THEN Ok(TRUE)
    ELSE IF s = "false" THEN Ok(FALSE)
    ELSE Err("ParseBoolError")

\* Result::map_err(|_| io::Error::new(InvalidData, msg))
map_err(r, msg) == IF r.ok THEN r ELSE Err(msg)

(***************************************************************************)
(* window_address_serde::deserialize, on the text of the JSON string.      *)
(***************************************************************************)
\* mutant: the prefix is not removed
window_address_deserialize_NoTrim(s) ==
    map_err(u64_from_str_radix(s, 16), "custom")

window_address_deserialize(s) ==
    LET trimmed == trim_start_matches(s, "0x")
    IN  map_err(u64_from_str_radix(trimmed, 16), "custom")

(***************************************************************************)
(* DataParser: the Split iterator is the sequence of tokens not yet        *)
(* consumed.  A consumer returns its result and the parser it leaves.      *)
(***************************************************************************)
\* mutant: an empty payload has no token
DataParser_new_EmptyIsNoToken(data) == IF data = "" THEN << >> ELSE split(data, ",")

DataParser_new(data) == split(data, ",")

next(p) ==
    IF p = << >>
    THEN [res |-> Err("unexpected end of data"), p |-> p]
    ELSE [res |-> Ok(Head(p)), p |-> Tail(p)]

next_string(p) == next(p)

\* mutant: the token is read in base 10
next_workspace_id_Decimal(p) ==
    LET n == next(p)
    IN  IF ~n.res.ok THEN n
        ELSE [res |-> map_err(i32_from_str_radix(n.res.val, 10), "invalid integer"),
              p |-> n.p]

next_workspace_id(p) ==
    LET n == next(p)
    IN  IF ~n.res.ok THEN n
        ELSE [res |-> map_err(i32_from_str_radix(n.res.val, 16), "invalid integer"),
              p |-> n.p]

next_window_address(p) ==
    LET n == next(p)
    IN  IF ~n.res.ok THEN n
        ELSE [res |-> map_err(u64_from_str_radix(n.res.val, 16), "invalid integer"),
              p |-> n.p]

\* mutant: a token that does not parse is taken for an absent address
next_maybe_window_address_ErrIsNone(p) ==
    LET n == next(p)
    IN  IF ~n.res.ok THEN n
        ELSE IF Len(n.res.val) = 0 THEN [res |-> Ok(None), p |-> n.p]
        ELSE LET r == u64_from_str_radix(n.res.val, 16)
             IN  [res |-> IF r.ok THEN Ok(Some(r.val)) ELSE Ok(None), p |-> n.p]

next_maybe_window_address(p) ==
    LET n == next(p)
    IN  IF ~n.res.ok THEN n
        ELSE IF Len(n.res.val) = 0 THEN [res |-> Ok(None), p |-> n.p]
        ELSE LET r == u64_from_str_radix(n.res.val, 16)
             IN  [res |-> IF r.ok THEN Ok(Some(r.val)) ELSE Err("invalid integer"),
                  p |-> n.p]

next_bool(p) ==
    LET n == next(p)
    IN  IF ~n.res.ok THEN n
        ELSE [res |-> map_err(bool_from_str(n.res.val), "invalid boolean"),
              p |-> n.p]

RECURSIVE CollectU64(_, _)
\* the collect::<Result<Vec<_>, _>>() over s.parse::<u64>(): stops at the first Err
CollectU64(toks, acc) ==
    IF toks = << >> THEN Ok(acc)
    ELSE LET r == u64_from_str_radix(Head(toks), 10)
         IN  IF ~r.ok THEN r ELSE CollectU64(Tail(toks), Append(acc, r.val))

\* consumes the parser: every remaining token, parsed in base 10
vec_window_ids(p) ==
    [res |-> map_err(CollectU64(p, << >>), "invalid window address"), p |-> << >>]

(***************************************************************************)
(* The event match of EventStream::listen.  An event is its variant name   *)
(* and its fields in declaration order.                                    *)
(***************************************************************************)
\* the arms that build an event: the variant and the consumer of each field
EventShape(event) ==
    CASE event = "workspacev2" ->
            [type |-> "WorkspaceChanged", fields |-> <<"workspace_id", "string">>]
      [] event = "focusedmon" ->
            [type |-> "FocusedMonitor", fields |-> <<"string", "string">>]
      [] event = "activewindowv2" ->
            [type |-> "ActiveWindow", fields |-> <<"maybe_window_address">>]
      [] event = "fullscreen" ->
            [type |-> "Fullscreen", fields |-> <<"bool">>]
      [] event = "monitorremoved" ->
            [type |-> "MonitorRemoved", fields |-> <<"string">>]
      [] event = "monitoraddedv2" ->
            [type |-> "MonitorAdded", fields |-> <<"workspace_id", "string", "string">>]
      [] event = "createworkspacev2" ->
            [type |-> "CreateWorkspace", fields |-> <<"workspace_id", "string">>]
      [] event = "destroyworkspacev2" ->
            [type |-> "DestroyWorkspace", fields |-> <<"workspace_id", "string">>]
      [] event = "moveworkspacev2" ->
            [type |-> "MoveWorkspace", fields |-> <<"workspace_id", "string", "string">>]
      [] event = "renameworkspace" ->
            [type |-> "RenameWorkspace", fields |-> <<"workspace_id", "string">>]
      [] event = "activespecial" ->
            [type |-> "ActiveSpecial", fields |-> <<"string", "string">>]
      [] event = "activelayout" ->
            [type |-> "ActiveLayout", fields |-> <<"string", "string">>]
      [] event = "openwindow" ->
            [type |-> "OpenWindow",
             fields |-> <<"window_address", "string", "string", "string">>]
      [] event = "closewindow" ->
            [type |-> "CloseWindow", fields |-> <<"window_address">>]
      [] event = "movewindowv2" ->
            [type |-> "MoveWindow",
             fields |-> <<"window_address", "workspace_id", "string">>]
      [] event = "openlayer" ->
            [type |-> "OpenLayer", fields |-> <<"string">>]
      [] event = "closelayer" ->
            [type |-> "CloseLayer", fields |-> <<"string">>]
      [] event = "submap" ->
            [type |-> "SubMap", fields |-> <<"string">>]
      [] event = "changefloatingmode" ->
            [type |-> "ChangeFloatingMode", fields |-> <<"window_address", "bool">>]
      [] event = "urgent" ->
            [type |-> "Urgent", fields |-> <<"window_address">>]
      [] event = "screencast" ->
            [type |-> "Screencast", fields |-> <<"bool", "owner">>]
      [] event = "windowtitlev2" ->
            [type |-> "WindowTitle", fields |-> <<"window_address", "string">>]
      [] event = "togglegroup" ->
            [type |-> "ToggleGroup", fields |-> <<"bool", "vec_window_ids">>]
      [] event = "moveintogroup" ->
            [type |-> "MoveIntoGroup", fields |-> <<"window_address">>]
      [] event = "moveoutofgroup" ->
            [type |-> "MoveOutOfGroup", fields |-> <<"window_address">>]
      [] event = "ignoregrouplock" ->
            [type |-> "IgnoreGroupLock", fields |-> <<"bool">>]
      [] event = "lockgroups" ->
            [type |-> "LockGroups", fields |-> <<"bool">>]
      [] event = "configreloaded" ->
            [type |-> "ConfigReloaded", fields |-> << >>]
      [] event = "pin" ->
            [type |-> "Pin", fields |-> <<"window_address", "bool">>]

KnownTags ==
    {"workspacev2", "focusedmon", "activewindowv2", "fullscreen", "monitorremoved",
     "monitoraddedv2", "createworkspacev2", "destroyworkspacev2", "moveworkspacev2",
     "renameworkspace", "activespecial", "activelayout", "openwindow", "closewindow",
     "movewindowv2", "openlayer", "closelayer", "submap", "changefloatingmode",
     "urgent", "screencast", "windowtitlev2", "togglegroup", "moveintogroup",
     "moveoutofgroup", "ignoregrouplock", "lockgroups", "configreloaded", "pin"}

\* mutant: one legacy tag is missing from the arm
LegacyTags_WithoutWindowTitle ==
    {"workspace", "activewindow", "monitoradded", "createworkspace",
     "destroyworkspace", "moveworkspace", "movewindow"}

\* the arm "ignore old events"
LegacyTags ==
    {"workspace", "activewindow", "monitoradded", "createworkspace",
     "destroyworkspace", "moveworkspace", "movewindow", "windowtitle"}

\* one field expression of an arm: data.next_...()
Consume(kind, p) ==
    CASE kind = "string" -> next_string(p)
      [] kind = "workspace_id" -> next_workspace_id(p)
      [] kind = "window_address" -> next_window_address(p)
      [] kind = "maybe_window_address" -> next_maybe_window_address(p)
      [] kind = "bool" -> next_bool(p)
      [] kind = "owner" ->
            LET b == next_bool(p)
            IN  IF ~b.res.ok THEN b
                ELSE [res |-> Ok(IF b.res.val THEN "Window" ELSE "Monitor"), p |-> b.p]
      [] kind = "vec_window_ids" -> vec_window_ids(p)

\* the fields each variant of HyprlandEvent declares
FieldCount(type) ==
    CASE type \in {"ConfigReloaded"} -> 0
      [] type \in {"ActiveWindow", "Fullscreen", "MonitorRemoved", "CloseWindow",
                   "OpenLayer", "CloseLayer", "SubMap", "Urgent", "MoveIntoGroup",
                   "MoveOutOfGroup", "IgnoreGroupLock", "LockGroups"} -> 1
      [] type \in {"WorkspaceChanged", "FocusedMonitor", "CreateWorkspace",
                   "DestroyWorkspace", "RenameWorkspace", "ActiveSpecial",
                   "ActiveLayout", "ChangeFloatingMode", "Screencast", "WindowTitle",
                   "ToggleGroup", "Pin"} -> 2
      [] type \in {"MonitorAdded", "MoveWorkspace", "MoveWindow"} -> 3
      [] type \in {"OpenWindow"} -> 4

RECURSIVE ParseFields(_, _, _)
\* mutant: a field that fails is left out and the event is built of the others
AfterField_SkipsFailedField(c, kinds, acc) ==
    IF ~c.res.ok THEN ParseFields(c.p, Tail(kinds), acc)
    ELSE ParseFields(c.p, Tail(kinds), Append(acc, c.res.val))

\* after one field expression returned c: `?` leaves the try block on Err
AfterField(c, kinds, acc) ==
    IF ~c.res.ok THEN c.res
    ELSE ParseFields(c.p, Tail(kinds), Append(acc, c.res.val))

\* mutant: tokens left over after the last field are an error
ParseFields_RejectsTrailing(p, kinds, acc) ==
    IF kinds = << >> THEN (IF p = << >> THEN Ok(acc) ELSE Err("trailing data"))
    ELSE AfterField(Consume(Head(kinds), p), kinds, acc)

\* the fields of one arm, in order
ParseFields(p, kinds, acc) ==
    IF kinds = << >> THEN Ok(acc)
    ELSE AfterField(Consume(Head(kinds), p), kinds, acc)

\* the value of the try block of an arm that builds an event
BuildEvent(type, r) ==
    IF r.ok THEN Ok([type |-> type, args |-> r.val]) ELSE r

\* mutant: an unknown tag is absorbed like a legacy one
decode_SkipsUnknown(event, data) ==
    IF event \in KnownTags
    THEN [yield |-> TRUE,
          item |-> BuildEvent(EventShape(event).type,
                              ParseFields(data, EventShape(event).fields, << >>))]
    ELSE [yield |-> FALSE, item |-> None]

\* `yield try { match event { ... } }`: what the loop does with one (event, data)
decode(event, data) ==
    IF event \in KnownTags
    THEN [yield |-> TRUE,
          item |-> BuildEvent(EventShape(event).type,
                              ParseFields(data, EventShape(event).fields, << >>))]
    ELSE IF event \in LegacyTags
    THEN [yield |-> FALSE, item |-> None]
    ELSE [yield |-> TRUE, item |-> Err("unknown event")]

\* mutant: one buffer declared before the loop and never cleared
String_new_KeepsPrevious(prev) == prev

\* `let mut line = String::new()` at the head of each iteration
String_new(prev) == ""

\* the rest of an iteration once the line is split into (event, data)
AfterSplit(so, l) ==
    IF ~so.some
    THEN [yield |-> TRUE, item |-> Err("invalid event format"), line |-> l, to |-> "loop"]
    ELSE [yield |-> decode(so.val[1], DataParser_new(so.val[2])).yield,
          item |-> decode(so.val[1], DataParser_new(so.val[2])).item,
          line |-> l, to |-> "loop"]

\* mutant: the loop is left when read_line returns Ok(0)
LoopBody_ReturnsAtEof(rd, buf) ==
    IF ~rd.ok THEN [yield |-> TRUE, item |-> Err(rd.err), line |-> buf, to |-> "loop"]
    ELSE IF rd.val = 0
    THEN [yield |-> TRUE, item |-> Err("invalid event format"), line |-> buf, to |-> "done"]
    ELSE AfterSplit(split_once(pop(buf), ">>"), pop(buf))

\* one iteration of the loop after read_line returned rd into the line buffer
LoopBody(rd, buf) ==
    IF ~rd.ok THEN [yield |-> TRUE, item |-> Err(rd.err), line |-> buf, to |-> "loop"]
    ELSE AfterSplit(split_once(pop(buf), ">>"), pop(buf))

(***************************************************************************)
(* dispatch.rs: Display for WorkspaceSpec and Dispatcher.  A WorkspaceSpec *)
(* is its variant name v and its payload; an i32 is an integer and a u32,  *)
(* like a u64, the big-endian sequence of its base-16 digits.              *)
(***************************************************************************)
digit_char(d) == CharAt("0123456789", d + 1)

RECURSIVE fmt_u(_)
\* the decimal digits of n >= 0
fmt_u(n) == IF n < 10 THEN digit_char(n) ELSE fmt_u(n \div 10) \o digit_char(n % 10)

\* the decimal digits of i32::unsigned_abs(n) for n < 0, i32::MIN included
fmt_unsigned_abs(n) ==
    IF (-(n + 1)) % 10 = 9 THEN fmt_u(((-(n + 1)) \div 10) + 1) \o "0"
    ELSE (IF -(n + 1) < 10 THEN "" ELSE fmt_u((-(n + 1)) \div 10))
         \o digit_char(((-(n + 1)) % 10) + 1)

\* mutant: the sign flag prints no sign for zero
Display_i32_NoSignForZero(n, sign_plus) ==
    IF n < 0 THEN "-" \o fmt_unsigned_abs(n)
    ELSE (IF sign_plus /\ n > 0 THEN "+" ELSE "") \o fmt_u(n)

\* <i32 as Display>::fmt for `{}` and, with sign_plus, for `{:+}`
Display_i32(n, sign_plus) ==
    IF n < 0 THEN "-" \o fmt_unsigned_abs(n)
    ELSE (IF sign_plus THEN "+" ELSE "") \o fmt_u(n)

RECURSIVE DivRem10(_, _, _)
\* the quotient (no leading zeros) and the remainder of base-16 digits by ten
DivRem10(ds, r, q) ==
    IF ds = << >> THEN [q |-> q, r |-> r]
    ELSE DivRem10(Tail(ds), (r * 16 + Head(ds)) % 10,
                  IF q = << >> /\ (r * 16 + Head(ds)) \div 10 = 0 THEN << >>
                  ELSE Append(q, (r * 16 + Head(ds)) \div 10))

RECURSIVE Display_u32(_)
RECURSIVE DecimalOf(_)
DecimalOf(d) == IF d.q = << >> THEN digit_char(d.r) ELSE Display_u32(d.q) \o digit_char(d.r)

\* <u32 as Display>::fmt for `{}`
Display_u32(ds) == DecimalOf(DivRem10(ds, 0, << >>))

\* mutant: the suffixes of Empty in the order n, m
fmt_Empty_NextFirst(nxt, monitor) ==
    CASE ~nxt /\ ~monitor -> "empty"
      [] nxt /\ ~monitor -> "emptyn"
      [] ~nxt /\ monitor -> "emptym"
      [] nxt /\ monitor -> "emptynm"

\* the four arms of WorkspaceSpec::Empty
fmt_Empty(nxt, monitor) ==
    CASE ~nxt /\ ~monitor -> "empty"
      [] nxt /\ ~monitor -> "emptyn"
      [] ~nxt /\ monitor -> "emptym"
      [] nxt /\ monitor -> "emptymn"

\* <WorkspaceSpec as Display>::fmt, collected by to_string
WorkspaceSpec_fmt(spec) ==
    CASE spec.v = "Id" -> Display_i32(spec.n, FALSE)
      [] spec.v = "RelativeId" -> Display_i32(spec.n, TRUE)
      [] spec.v = "MonitorRelativeId" -> "m" \o Display_i32(spec.n, TRUE)
      [] spec.v = "MonitorAbsoluteId" -> "m~" \o Display_u32(spec.n)
      [] spec.v = "MonitorIncludingEmptyRelativeId" -> "r" \o Display_i32(spec.n, TRUE)
      [] spec.v = "MonitorIncludingEmptyAbsoluteId" -> "r~" \o Display_u32(spec.n)
      [] spec.v = "OpenRelativeId" -> "e" \o Display_i32(spec.n, TRUE)
      [] spec.v = "OpenAbsoluteId" -> "e~" \o Display_u32(spec.n)
      [] spec.v = "Name" -> "name:" \o spec.s
      [] spec.v = "Previous" -> "previous"
      [] spec.v = "PreviousPerMonitor" -> "previous_per_monitor"
      [] spec.v = "Empty" -> fmt_Empty(spec.next, spec.monitor)
      [] spec.v = "Special" ->
            IF spec.s.some THEN "special:" \o spec.s.val ELSE "special"

\* <Dispatcher as Display>::fmt: the one variant ChangeWorkspace(spec)
Dispatcher_fmt(d) == "workspace " \o WorkspaceSpec_fmt(d.spec)

(***************************************************************************)
(* serde_json::from_slice::<Vec<T>> for the derived Deserialize of         *)
(* Workspace, Client and ClientWorkspace (commands.rs).  The text is read  *)
(* as JSON (strings with the escapes \" \\ \/ only, numbers without an     *)
(* exponent) into a value [t, v]; the derived visitors then read the value *)
(* field by field.  A struct is its field values in declaration order.     *)
(***************************************************************************)
JErr == [ok |-> FALSE]
JOk(v, i) == [ok |-> TRUE, val |-> v, pos |-> i]

RECURSIVE skip_ws(_, _)
skip_ws(s, i) ==
    IF i <= Len(s) /\ CharAt(s, i) \in {" ", "\n", "\t", "\r"} THEN skip_ws(s, i + 1) ELSE i

RECURSIVE scan_string(_, _, _)
\* from the character after the opening quote to the closing quote
scan_string(s, i, acc) ==
    IF i > Len(s) THEN JErr
    ELSE IF CharAt(s, i) = "\"" THEN JOk([t |-> "str", v |-> acc], i + 1)
    ELSE IF CharAt(s, i) = "\\"
    THEN IF i + 1 <= Len(s) /\ CharAt(s, i + 1) \in {"\"", "\\", "/"}
         THEN scan_string(s, i + 2, acc \o CharAt(s, i + 1))
         ELSE JErr
    ELSE IF CharAt(s, i) \in {"\n", "\t", "\r"} THEN JErr
    ELSE scan_string(s, i + 1, acc \o CharAt(s, i))

RECURSIVE scan_digits(_, _)
\* the position after the digits that start at i
scan_digits(s, i) ==
    IF i <= Len(s) /\ FindFrom("0123456789", CharAt(s, i), 1) > 0
    THEN scan_digits(s, i + 1) ELSE i

\* a numeral at i: an i32, an integer that is none, or a number with a fraction
parse_number(s, i) ==
    LET int_value(text) ==
            IF text = "-0" THEN [t |-> "float"]
            ELSE IF i32_from_str_radix(text, 10).ok
            THEN [t |-> "int", v |-> i32_from_str_radix(text, 10).val]
            ELSE [t |-> "bigint"]
        number_from(st, e) ==
            IF e = st THEN JErr
            ELSE IF CharAt(s, st) = "0" /\ e > st + 1 THEN JErr
            ELSE IF e <= Len(s) /\ CharAt(s, e) = "."
            THEN IF scan_digits(s, e + 1) = e + 1 THEN JErr
                 ELSE JOk([t |-> "float"], scan_digits(s, e + 1))
            ELSE JOk(int_value(SubSeq(s, i, e - 1)), e)
    IN  IF CharAt(s, i) = "-" THEN number_from(i + 1, scan_digits(s, i + 1))
        ELSE number_from(i, scan_digits(s, i))

parse_ident(s, i, word, v) ==
    IF SubSeq(s, i, i + Len(word) - 1) = word THEN JOk(v, i + Len(word)) ELSE JErr

RECURSIVE parse_value(_, _)
RECURSIVE parse_elems(_, _, _)
RECURSIVE parse_members(_, _, _)

\* the elements of an array from i: after each, a comma and the next, or the end
parse_elems(s, i, acc) ==
    LET after_elem(j, acc2) ==
            IF j > Len(s) THEN JErr
            ELSE IF CharAt(s, j) = "," THEN parse_elems(s, j + 1, acc2)
            ELSE IF CharAt(s, j) = "]" THEN JOk([t |-> "arr", v |-> acc2], j + 1)
            ELSE JErr
        elem_parsed(r) ==
            IF ~r.ok THEN JErr ELSE after_elem(skip_ws(s, r.pos), Append(acc, r.val))
    IN  elem_parsed(parse_value(s, i))

\* the members of an object; i is at the first character of a key
parse_members(s, i, acc) ==
    LET after_member(j, acc2) ==
            IF j > Len(s) THEN JErr
            ELSE IF CharAt(s, j) = "," THEN parse_members(s, skip_ws(s, j + 1), acc2)
            ELSE IF CharAt(s, j) = "}" THEN JOk([t |-> "obj", v |-> acc2], j + 1)
            ELSE JErr
        member_parsed(k, r) ==
            IF ~r.ok THEN JErr
            ELSE after_member(skip_ws(s, r.pos), Append(acc, <<k.val.v, r.val>>))
        key_parsed(k, j) ==
            IF j > Len(s) \/ CharAt(s, j) # ":" THEN JErr
            ELSE member_parsed(k, parse_value(s, j + 1))
        after_key(k) == IF ~k.ok THEN JErr ELSE key_parsed(k, skip_ws(s, k.pos))
    IN  IF i > Len(s) \/ CharAt(s, i) # "\"" THEN JErr
        ELSE after_key(scan_string(s, i + 1, ""))

value_at(s, i) ==
    IF i > Len(s) THEN JErr
    ELSE IF CharAt(s, i) = "["
    THEN IF skip_ws(s, i + 1) <= Len(s) /\ CharAt(s, skip_ws(s, i + 1)) = "]"
         THEN JOk([t |-> "arr", v |-> << >>], skip_ws(s, i + 1) + 1)
         ELSE parse_elems(s, i + 1, << >>)
    ELSE IF CharAt(s, i) = "{"
    THEN IF skip_ws(s, i + 1) <= Len(s) /\ CharAt(s, skip_ws(s, i + 1)) = "}"
         THEN JOk([t |-> "obj", v |-> << >>], skip_ws(s, i + 1) + 1)
         ELSE parse_members(s, skip_ws(s, i + 1), << >>)
    ELSE IF CharAt(s, i) = "\"" THEN scan_string(s, i + 1, "")
    ELSE IF CharAt(s, i) = "t" THEN parse_ident(s, i, "true", [t |-> "bool", v |-> TRUE])
    ELSE IF CharAt(s, i) = "f" THEN parse_ident(s, i, "false", [t |-> "bool", v |-> FALSE])
    ELSE IF CharAt(s, i) = "n" THEN parse_ident(s, i, "null", [t |-> "null"])
    ELSE parse_number(s, i)

parse_value(s, i) == value_at(s, skip_ws(s, i))

\* the whole text is one value, with nothing but white space after it
json_from_str(s) ==
    LET whole_value(r) ==
            IF r.ok /\ skip_ws(s, r.pos) > Len(s) THEN Ok(r.val) ELSE Err("syntax")
    IN  whole_value(parse_value(s, 1))

\* the fields of the structs: the JSON key (after serde(rename)) and the type
ClientWorkspaceFields == <<<<"id", "WorkspaceId">>, <<"name", "String">>>>

WorkspaceFields ==
    <<<<"id", "WorkspaceId">>, <<"name", "String">>, <<"monitor", "String">>,
      <<"monitorID", "i32">>, <<"windows", "i32">>, <<"hasfullscreen", "bool">>,
      <<"lastwindow", "WindowAddress">>, <<"lastwindowtitle", "String">>>>

ClientFields ==
    <<<<"address", "WindowAddress">>, <<"title", "String">>, <<"monitor", "i32">>,
      <<"workspace", "ClientWorkspace">>>>

RECURSIVE de_type(_, _)
RECURSIVE de_map(_, _, _)
RECURSIVE de_seq(_, _, _)

\* visit_map: every field from the one member of its key (a missing or a duplicate
\* key is an error); other keys are ignored
de_map(fields, members, acc) ==
    LET map_field(ms, ty) ==
            IF Len(ms) # 1 THEN Err("missing or duplicate field") ELSE de_type(ty, ms[1][2])
        field_read(r) ==
            IF ~r.ok THEN r ELSE de_map(Tail(fields), members, Append(acc, r.val))
    IN  IF fields = << >> THEN Ok(acc)
        ELSE field_read(map_field(SelectSeq(members, LAMBDA m : m[1] = Head(fields)[1]),
                                  Head(fields)[2]))

\* visit_seq: the fields in order from the elements of an array
de_seq(fields, elems, acc) ==
    LET elem_read(r) ==
            IF ~r.ok THEN r ELSE de_seq(Tail(fields), Tail(elems), Append(acc, r.val))
    IN  IF fields = << >>
        THEN (IF elems = << >> THEN Ok(acc) ELSE Err("trailing characters"))
        ELSE IF elems = << >> THEN Err("invalid length")
        ELSE elem_read(de_type(Head(fields)[2], Head(elems)))

de_struct(fields, v) ==
    IF v.t = "obj" THEN de_map(fields, v.v, << >>)
    ELSE IF v.t = "arr" THEN de_seq(fields, v.v, << >>)
    ELSE Err("invalid type")

de_type(ty, v) ==
    CASE ty \in {"i32", "WorkspaceId"} ->
            IF v.t = "int" THEN Ok(v.v) ELSE Err("invalid type")
      [] ty = "String" -> IF v.t = "str" THEN Ok(v.v) ELSE Err("invalid type")
      [] ty = "bool" -> IF v.t = "bool" THEN Ok(v.v) ELSE Err("invalid type")
      [] ty = "WindowAddress" ->
            IF v.t = "str" THEN window_address_deserialize(v.v) ELSE Err("invalid type")
      [] ty = "ClientWorkspace" -> de_struct(ClientWorkspaceFields, v)
      [] ty = "Workspace" -> de_struct(WorkspaceFields, v)
      [] ty = "Client" -> de_struct(ClientFields, v)

RECURSIVE de_vec_SkipsBadRecords(_, _, _)
\* mutant: a record that does not deserialize is left out of the list
de_vec_SkipsBadRecords(ty, elems, acc) ==
    IF elems = << >> THEN Ok(acc)
    ELSE de_vec_SkipsBadRecords(ty, Tail(elems),
                                IF de_type(ty, Head(elems)).ok
                                THEN Append(acc, de_type(ty, Head(elems)).val) ELSE acc)

RECURSIVE de_vec(_, _, _)
\* Vec<T>: every element in order, the first error is the result
de_vec(ty, elems, acc) ==
    LET vec_elem_read(r) ==
            IF ~r.ok THEN r ELSE de_vec(ty, Tail(elems), Append(acc, r.val))
    IN  IF elems = << >> THEN Ok(acc)
        ELSE vec_elem_read(de_type(ty, Head(elems)))

\* serde_json::from_slice::<Vec<T>>(&out).map_err(|e| io::Error::new(InvalidData, e))
from_slice(ty, out) ==
    LET typed_vec(j) ==
            IF ~j.ok THEN j
            ELSE IF j.val.t # "arr" THEN Err("invalid type")
            ELSE de_vec(ty, j.val.v, << >>)
    IN  map_err(typed_vec(json_from_str(out)), "InvalidData")

(***************************************************************************)
(* State.                                                                  *)
(***************************************************************************)
VARIABLES
    sig_set,    \* HYPRLAND_INSTANCE_SIGNATURE is set in the environment
    sock_up,    \* a connect to .socket2.sock succeeds
    pc,         \* the generator: "start", "loop" (at read_line), "yield", "done"
                \* (returned) or "dropped" (the consumer dropped it)
    resume,     \* at a yield: where the generator goes on when polled again
    sock,       \* every byte the compositor has written to the connection
    sent,       \* history: the chunks it has written
    eof,        \* the compositor has closed the connection
    rpos,       \* bytes of sock that read_line has taken
    line,       \* the line buffer as the last iteration left it
    items,      \* history: the items yielded, each with the iteration that yielded it
    reads,      \* history: one entry per read_line call
    connects,   \* history: UnixStream::connect calls
    dp_in,      \* the payload a DataParser was made of
    dp,         \* that DataParser
    ret,        \* the last call on it: the operation, its argument, what it returned
    cmd_up,     \* a connect to .socket.sock succeeds
    calls,      \* the command calls: for each caller, where its call is and its result
    conns,      \* the connections to .socket.sock, each under the caller that made it
    queue,      \* the messages in the channel of Bar::subscription
    parked,     \* its sender is parked: its last message went over the buffer
    received,   \* history: the messages the receiver has taken
    bar         \* the Bar: its workspaces and clients, and the fetches it has handled

stream_vars == <<sig_set, sock_up, pc, resume, sock, sent, eof, rpos, line, items, reads, connects>>
parser_vars == <<dp_in, dp, ret>>
cmd_vars == <<cmd_up, calls, conns>>
sub_vars == <<queue, parked, received, bar>>
vars == <<sig_set, sock_up, pc, resume, sock, sent, eof, rpos, line, items, reads, connects,
          dp_in, dp, ret, cmd_up, calls, conns, queue, parked, received, bar>>

(***************************************************************************)
(* What the compositor may write: whole records, and pieces of a record    *)
(* that arrive on their own.                                               *)
(***************************************************************************)
Chunks ==
    {"workspacev2>>3,web\n", "workspace>>3\n", "bogus>>x,y\n", "togglegroup>>1,1a,2b\n",
     "garbage\n", "openwindow>>1a2b,2,kitty\n", "closewindow>>0x1a2b\n",
     "closewindow>>1a2b\n", "movewindowv2>>1a,g,web\n", "submap>>a>>b\n",
     "pin>>1a,yes\n", "fullscreen>>true", "\n"}

\* every legacy tag, with payloads its v2 form would accept or reject, two other
\* records, and a piece that ends in the separator
LegacyChunks ==
    {"workspace>>3\n", "activewindow>>kitty,zsh\n", "monitoradded>>\n",
     "createworkspace>>zz\n", "destroyworkspace>>9\n", "moveworkspace>>1\n",
     "movewindow>>0x1,2\n", "windowtitle>>1a2b\n", "workspacev2>>3,web\n",
     "windowtitlev2>>zz,t\n", "workspaces>>3\n", "workspace>>"}

StreamInit ==
    /\ sig_set \in BOOLEAN
    /\ sock_up \in BOOLEAN
    /\ pc = "start"
    /\ resume = "none"
    /\ sock = ""
    /\ sent = 0
    /\ eof = FALSE
    /\ rpos = 0
    /\ line = ""
    /\ items = << >>
    /\ reads = << >>
    /\ connects = 0

ParserIdle ==
    /\ dp_in = ""
    /\ dp = << >>
    /\ ret = [op |-> "none"]

\* a connection that has not been made
NoConn ==
    [written |-> "", writers |-> {}, plan |-> None, resp |-> "", state |-> "none",
     released |-> FALSE]

\* a caller that has not called yet
IdleCall ==
    [pc |-> "idle", method |-> [kind |-> "none"], conn |-> 0, woff |-> 0, out |-> "",
     attempts |-> 0, steps |-> << >>, exec |-> None, res |-> None]

\* no command call yet
CmdIdle ==
    /\ cmd_up = TRUE
    /\ calls = [c \in 1 .. MaxCalls |-> IdleCall]
    /\ conns = [c \in 1 .. MaxCalls |-> NoConn]

\* the channel of the subscription, empty, and the Bar as Bar::new makes it
SubIdle ==
    /\ queue = << >>
    /\ parked = FALSE
    /\ received = << >>
    /\ bar = [workspaces |-> << >>, clients |-> << >>, handled |-> {}]

Init == StreamInit /\ ParserIdle /\ CmdIdle /\ SubIdle

(***************************************************************************)
(* EventStream::listen.                                                    *)
(***************************************************************************)
\* hyprland_rundir: the directory of the sockets, or the missing variable
hyprland_rundir ==
    IF sig_set THEN Ok("rundir") ELSE Err("HYPRLAND_INSTANCE_SIGNATURE not set")

\* mutant: the connect is attempted before the path is checked
TryConnect_ConnectsWithoutEnv ==
    IF ~sock_up
    THEN [res |-> Err("failed to connect to event stream"), connects |-> 1]
    ELSE IF ~hyprland_rundir.ok THEN [res |-> hyprland_rundir, connects |-> 1]
    ELSE [res |-> Ok("BufReader"), connects |-> 1]

\* the try block: the path, then the connect; `?` leaves it at the first failure
TryConnect ==
    LET dir == hyprland_rundir
    IN  IF ~dir.ok THEN [res |-> dir, connects |-> 0]
        ELSE IF ~sock_up
        THEN [res |-> Err("failed to connect to event stream"), connects |-> 1]
        ELSE [res |-> Ok("BufReader"), connects |-> 1]

Yield(item, to) ==
    /\ items' = Append(items, [it |-> item, iter |-> Len(reads')])
    /\ pc' = "yield"
    /\ resume' = to

\* the first poll: connect, then enter the loop, or yield the error and return
Listen ==
    /\ pc = "start"
    /\ LET t == TryConnect
       IN  /\ connects' = connects + t.connects
           /\ reads' = reads
           /\ IF t.res.ok
              THEN /\ pc' = "loop"
                   /\ UNCHANGED <<resume, items>>
              ELSE Yield(t.res, "done")
    /\ UNCHANGED <<sig_set, sock_up, sock, sent, eof, rpos, line, parser_vars, cmd_vars, sub_vars>>

\* the consumer polls the generator again after an item
Resume ==
    /\ pc = "yield"
    /\ pc' = resume
    /\ resume' = "none"
    /\ UNCHANGED <<sig_set, sock_up, sock, sent, eof, rpos, line, items, reads, connects,
                   parser_vars, cmd_vars, sub_vars>>

\* the consumer drops the stream at a suspension point
Drop ==
    /\ pc \in {"start", "loop", "yield"}
    /\ pc' = "dropped"
    /\ resume' = "none"
    /\ UNCHANGED <<sig_set, sock_up, sock, sent, eof, rpos, line, items, reads, connects,
                   parser_vars, cmd_vars, sub_vars>>

Connected == connects = 1 /\ sock_up /\ pc \in {"loop", "yield"}

\* the bytes written and not yet read
Unread == SubSeq(sock, rpos + 1, Len(sock))

\* the compositor writes one of the chunks, at most max of them in a run
PeerSend(chunks, max) ==
    /\ Connected
    /\ ~eof
    /\ \E c \in chunks :
          /\ sent < max
          /\ sent' = sent + 1
          /\ sock' = sock \o c
    /\ UNCHANGED <<sig_set, sock_up, pc, resume, eof, rpos, line, items, reads, connects,
                   parser_vars, cmd_vars, sub_vars>>

PeerClose ==
    /\ Connected
    /\ ~eof
    /\ eof' = TRUE
    /\ UNCHANGED <<sig_set, sock_up, pc, resume, sock, sent, rpos, line, items, reads, connects,
                   parser_vars, cmd_vars, sub_vars>>

\* the iteration's effect: b is what LoopBody made of the read
Commit(b, rd, n, buf) ==
    /\ rpos' = rpos + n
    /\ reads' = Append(reads, [ok |-> rd.ok, off |-> rpos, n |-> n, buf |-> buf])
    /\ line' = b.line
    /\ IF b.yield
       THEN Yield(b.item, b.to)
       ELSE /\ pc' = b.to
            /\ UNCHANGED <<resume, items>>

\* read_line appends the n bytes it took to the fresh line buffer
Filled(n) == String_new(line) \o SubSeq(Unread, 1, n)

\* what the iteration does once read_line has returned rd, having taken n bytes
Iterate(rd, n) ==
    \E buf \in {Filled(n)} : \E b \in {LoopBody(rd, buf)} : Commit(b, rd, n, buf)

\* mutant: at end of input read_line waits for bytes that never come
ReadLineOk_WaitsAtEof(max) ==
    /\ pc = "loop"
    /\ Len(reads) < max
    /\ LET nl == FindFrom(Unread, "\n", 1)
       IN  /\ nl > 0
           /\ Iterate(Ok(nl), nl)
    /\ UNCHANGED <<sig_set, sock_up, sock, sent, eof, connects, parser_vars, cmd_vars, sub_vars>>

\* read_line returns Ok(n): a line with its newline, or what is left at end of input
ReadLineOk(max) ==
    /\ pc = "loop"
    /\ Len(reads) < max
    /\ LET nl == FindFrom(Unread, "\n", 1)
       IN  /\ nl > 0 \/ eof
           /\ \E n \in {IF nl > 0 THEN nl ELSE Len(Unread)} : Iterate(Ok(n), n)
    /\ UNCHANGED <<sig_set, sock_up, sock, sent, eof, connects, parser_vars, cmd_vars, sub_vars>>

\* read_line returns Err(e); the bytes it took before the error stay in line
ReadLineErr ==
    /\ pc = "loop"
    /\ Len(reads) < MaxReads
    /\ LET nl == FindFrom(Unread, "\n", 1)
           before == IF nl > 0 THEN nl - 1 ELSE Len(Unread)
       IN  \E k \in 0 .. MaxPartial :
              /\ k <= before
              /\ Iterate(Err("read error"), k)
    /\ UNCHANGED <<sig_set, sock_up, sock, sent, eof, connects, parser_vars, cmd_vars, sub_vars>>

StreamNext(chunks) ==
    \/ Listen
    \/ Resume
    \/ Drop
    \/ PeerSend(chunks, MaxRecords)
    \/ PeerClose
    \/ ReadLineOk(MaxReads)
    \/ ReadLineErr

Next == StreamNext(Chunks)

Spec == Init /\ [][Next]_vars

LegacyNext == StreamNext(LegacyChunks)

\* the stream fed with the legacy records
LegacySpec == Init /\ [][LegacyNext]_vars

EofNext ==
    \/ Listen
    \/ Resume
    \/ Drop
    \/ PeerSend({"fullscreen>>true\n", "submap>>resize"}, MaxRecords)
    \/ PeerClose
    \/ ReadLineOk(MaxEofReads)

\* the stream up to and past the end of input.  A read of the socket that has
\* a line or is at its end completes without the peer, and the consumer that
\* has not dropped the stream polls it again.
EofSpec ==
    Init /\ [][EofNext]_vars /\ WF_vars(ReadLineOk(MaxEofReads)) /\ WF_vars(Resume)

(***************************************************************************)
(* The parsers on their own: a DataParser made of a payload and consumed   *)
(* call by call, the event match applied to a tag and a payload, and the   *)
(* JSON address path applied to a string.                                  *)
(***************************************************************************)
\* the first token of a payload
Tokens ==
    {"true", "false", "1", "0", "", "True", "yes", "1a2b", "0x1a2b", "1A2B", "+1a", "-1a",
     "zz", "ffffffffffffffff", "10000000000000000", "7fffffff", "80000000", "-80000000",
     "-80000001", "10", "web", "3", "18446744073709551615", "18446744073709551616"}

\* the tokens after the first
MoreTokens == {"true", "false", "1", "", "1a2b", "26", "web"}

RECURSIVE Joined(_)
\* the payloads of n tokens
Joined(n) ==
    IF n = 1 THEN Tokens
    ELSE {p \o "," \o t : p \in Joined(n - 1), t \in MoreTokens}

\* payloads with commas in what the compositor means as the last field
LongPayloads == {"1a2b,my,title", "1a2b,1,kitty,vim a,b", "3,web,DP-1,extra", "true,false,1"}

Payloads == UNION {Joined(n) : n \in 1 .. MaxTokens} \cup LongPayloads

JsonAddresses ==
    {"1a2b", "0x1a2b", "0x55d2a1", "0x0x1a", "0X1a", "x1a", "0x", "", "1a2g",
     "ffffffffffffffff", "0x10000000000000000"}

Tags == KnownTags \cup LegacyTags \cup {"bogus", "", "Workspacev2", "workspacev3"}

StreamIdle ==
    /\ sig_set = TRUE
    /\ sock_up = TRUE
    /\ pc = "start"
    /\ resume = "none"
    /\ sock = ""
    /\ sent = 0
    /\ eof = FALSE
    /\ rpos = 0
    /\ line = ""
    /\ items = << >>
    /\ reads = << >>
    /\ connects = 0

ParserInit ==
    /\ StreamIdle
    /\ CmdIdle
    /\ SubIdle
    /\ dp_in \in Payloads
    /\ dp = DataParser_new(dp_in)
    /\ ret = [op |-> "none"]

Consumers ==
    {"string", "workspace_id", "window_address", "maybe_window_address", "bool",
     "vec_window_ids"}

\* the parser is still owned: vec_window_ids takes it by value
Live == ret.op \notin {"vec_window_ids", "decode"}

Returned(kind, r) ==
    /\ dp' = r.p
    /\ ret' = [op |-> kind, before |-> dp, res |-> r.res]

\* one call data.next_...() or data.vec_window_ids()
Call ==
    /\ Live
    /\ \E kind \in Consumers : Returned(kind, Consume(kind, dp))
    /\ UNCHANGED <<dp_in, stream_vars, cmd_vars, sub_vars>>

\* the match of listen on (event, a fresh parser of the payload)
Decode ==
    /\ ret.op = "none"
    /\ \E event \in Tags :
          ret' = [op |-> "decode", event |-> event,
                  res |-> decode(event, DataParser_new(dp_in))]
    /\ UNCHANGED <<dp_in, dp, stream_vars, cmd_vars, sub_vars>>

\* serde hands the text of a JSON string to window_address_serde::deserialize
Deserialize ==
    /\ ret.op = "none"
    /\ \E s \in JsonAddresses :
          ret' = [op |-> "deserialize", arg |-> s, res |-> window_address_deserialize(s)]
    /\ UNCHANGED <<dp_in, dp, stream_vars, cmd_vars, sub_vars>>

\* responses of j/clients with one record, whose workspace id is the JSON value
ClientsWithId ==
    {"[{\"address\":\"0x1a2b\",\"title\":\"zsh\",\"monitor\":0,\"workspace\":{\"id\":"
     \o id \o ",\"name\":\"web\"}}]" : id \in {"10", "-98", "\"10\"", "2147483648", "1a"}}

\* json_vec::<Client> on the bytes of a response
FromSlice ==
    /\ ret.op = "none"
    /\ \E body \in ClientsWithId :
          ret' = [op |-> "from_slice", arg |-> body, res |-> from_slice("Client", body)]
    /\ UNCHANGED <<dp_in, dp, stream_vars, cmd_vars, sub_vars>>

ParserNext ==
    \/ Call
    \/ Decode
    \/ Deserialize
    \/ FromSlice

ParserSpec == ParserInit /\ [][ParserNext]_vars

(***************************************************************************)
(* The encoder on its own: to_string applied to a WorkspaceSpec and to the *)
(* Dispatcher that wraps it.                                               *)
(***************************************************************************)
I32Samples == {0, 1, -1, 9, 10, -10, 42, 100, -2147483647, I32Max, I32Min}

\* 0, 1, 10, 42, 100, 2^31, u32::MAX
U32Samples ==
    {<< >>, <<1>>, <<10>>, <<2, 10>>, <<6, 4>>, <<8, 0, 0, 0, 0, 0, 0, 0>>,
     <<15, 15, 15, 15, 15, 15, 15, 15>>}

NameSamples == {"web", "scratch", "", "a b", "1"}

WorkspaceSpecs ==
    [v : {"Id", "RelativeId", "MonitorRelativeId", "MonitorIncludingEmptyRelativeId",
          "OpenRelativeId"}, n : I32Samples]
    \cup [v : {"MonitorAbsoluteId", "MonitorIncludingEmptyAbsoluteId", "OpenAbsoluteId"},
          n : U32Samples]
    \cup [v : {"Name"}, s : NameSamples]
    \cup [v : {"Previous", "PreviousPerMonitor"}]
    \cup [v : {"Empty"}, next : BOOLEAN, monitor : BOOLEAN]
    \cup [v : {"Special"}, s : {None} \cup {Some(x) : x \in NameSamples}]

\* spec.to_string()
to_string ==
    /\ \E spec \in WorkspaceSpecs :
          ret' = [op |-> "to_string", arg |-> spec, res |-> WorkspaceSpec_fmt(spec)]
    /\ UNCHANGED <<dp_in, dp, stream_vars, cmd_vars, sub_vars>>

\* Dispatcher::ChangeWorkspace(spec).to_string()
Dispatcher_to_string ==
    /\ \E spec \in WorkspaceSpecs :
          ret' = [op |-> "dispatcher_to_string", arg |-> spec,
                  res |-> Dispatcher_fmt([v |-> "ChangeWorkspace", spec |-> spec])]
    /\ UNCHANGED <<dp_in, dp, stream_vars, cmd_vars, sub_vars>>

DispatchNext ==
    \/ to_string
    \/ Dispatcher_to_string

DispatchInit == StreamIdle /\ ParserIdle /\ CmdIdle /\ SubIdle

DispatchSpec == DispatchInit /\ [][DispatchNext]_vars

(***************************************************************************)
(* commands.rs: Command::new, exec, json_vec, workspaces, clients and      *)
(* dispatch.  A call is Command::new().await?.method().await of one        *)
(* caller; calls[c] is where it is: "write" (in write_all), "flush",       *)
(* "read" (in read_to_end) or "done" with its result.  The compositor may  *)
(* send a response in one piece or two and then close the connection, or   *)
(* close it with request bytes unread, which the client sees as a broken   *)
(* pipe on write and a reset on read.                                      *)
(***************************************************************************)
NewConn == [NoConn EXCEPT !.state = "open"]

\* mutant: a connection that exists is used again
Command_new_Pooled(c) ==
    IF ~hyprland_rundir.ok THEN [res |-> hyprland_rundir, attempts |-> 0, conns |-> conns]
    ELSE IF ~cmd_up
    THEN [res |-> Err("failed to connect to event stream"), attempts |-> 1, conns |-> conns]
    ELSE IF \E i \in DOMAIN conns : conns[i].state # "none"
    THEN [res |-> Ok(CHOOSE i \in DOMAIN conns : conns[i].state # "none"),
          attempts |-> 0, conns |-> conns]
    ELSE [res |-> Ok(c), attempts |-> 1, conns |-> [conns EXCEPT ![c] = NewConn]]

\* mutant: a failed connect is tried once more
Command_new_Retries(c) ==
    IF ~hyprland_rundir.ok THEN [res |-> hyprland_rundir, attempts |-> 0, conns |-> conns]
    ELSE IF ~cmd_up
    THEN [res |-> Err("failed to connect to event stream"), attempts |-> 2, conns |-> conns]
    ELSE [res |-> Ok(c), attempts |-> 1, conns |-> [conns EXCEPT ![c] = NewConn]]

\* Command::new of caller c: the path, then one connect; Ok holds the new connection
Command_new(c) ==
    IF ~hyprland_rundir.ok THEN [res |-> hyprland_rundir, attempts |-> 0, conns |-> conns]
    ELSE IF ~cmd_up
    THEN [res |-> Err("failed to connect to event stream"), attempts |-> 1, conns |-> conns]
    ELSE [res |-> Ok(c), attempts |-> 1, conns |-> [conns EXCEPT ![c] = NewConn]]

\* the command each method hands to exec
CommandText(m) ==
    CASE m.kind = "workspaces" -> "j/workspaces"
      [] m.kind = "clients" -> "j/clients"
      [] m.kind = "dispatch" -> "j/dispatch " \o Dispatcher_fmt(m.d)

\* json_vec after exec returned r
json_vec(ty, r) == IF ~r.ok THEN r ELSE from_slice(ty, r.val)

\* mutant: the response has to be the compositor's "ok"
dispatch_ChecksBody(r) == IF ~r.ok THEN r ELSE IF r.val = "ok" THEN Ok("()") ELSE Err("Other")

\* dispatch after exec returned r: the body is dropped
dispatch(r) == IF ~r.ok THEN r ELSE Ok("()")

\* what the method returns once exec has returned r
MethodResult(m, r) ==
    CASE m.kind = "workspaces" -> json_vec("Workspace", r)
      [] m.kind = "clients" -> json_vec("Client", r)
      [] m.kind = "dispatch" -> dispatch(r)

\* the call of caller c once Command::new has returned n
Started(m, n) ==
    IF n.res.ok
    THEN [IdleCall EXCEPT !.pc = "write", !.method = m, !.conn = n.res.val,
                          !.attempts = n.attempts, !.steps = <<"connect">>]
    ELSE [IdleCall EXCEPT !.pc = "done", !.method = m, !.attempts = n.attempts,
                          !.res = Some(n.res)]

\* caller c calls Command::new and, on Ok, one method of the Command
Begin(c, methods) ==
    /\ calls[c].pc = "idle"
    /\ \E m \in methods :
          /\ conns' = Command_new(c).conns
          /\ calls' = [calls EXCEPT ![c] = Started(m, Command_new(c))]
    /\ UNCHANGED <<cmd_up, stream_vars, parser_vars, sub_vars>>

\* exec returns r: the method returns, and the Command it consumed is dropped
Finish(c, r, step) ==
    /\ calls' = [calls EXCEPT ![c].pc = "done",
                              ![c].steps = @ \o <<step, "release">>,
                              ![c].exec = Some(r),
                              ![c].res = Some(MethodResult(calls[c].method, r))]
    /\ conns' = [conns EXCEPT ![calls[c].conn].released = TRUE]

\* k more bytes of the command are written
Written(c, cmd, k) ==
    /\ conns' = [conns EXCEPT ![calls[c].conn].written =
                                  @ \o SubSeq(cmd, calls[c].woff + 1, calls[c].woff + k),
                              ![calls[c].conn].writers = @ \cup {c}]
    /\ calls' = [calls EXCEPT ![c].woff = @ + k,
                              ![c].pc = IF @ = "write" /\ calls[c].woff + k = Len(cmd)
                                        THEN "flush" ELSE @,
                              ![c].steps = IF calls[c].woff + k = Len(cmd)
                                           THEN Append(@, "write_all") ELSE @]

\* one write of write_all(command.as_bytes())
WriteAll(c) ==
    /\ calls[c].pc = "write"
    /\ IF conns[calls[c].conn].state # "open"
       THEN Finish(c, Err("BrokenPipe"), "write_all failed")
       ELSE \E k \in {Len(CommandText(calls[c].method)) - calls[c].woff, ShortWrite} :
               /\ k <= Len(CommandText(calls[c].method)) - calls[c].woff
               /\ k = ShortWrite => calls[c].woff = 0
               /\ Written(c, CommandText(calls[c].method), k)
    /\ UNCHANGED <<cmd_up, stream_vars, parser_vars, sub_vars>>

\* flush of a UnixStream: nothing is buffered
Flush(c) ==
    /\ calls[c].pc = "flush"
    /\ calls' = [calls EXCEPT ![c].pc = "read", ![c].steps = Append(@, "flush")]
    /\ UNCHANGED <<cmd_up, conns, stream_vars, parser_vars, sub_vars>>

\* the bytes of the response that the call has not read
Available(c) ==
    SubSeq(conns[calls[c].conn].resp, Len(calls[c].out) + 1, Len(conns[calls[c].conn].resp))

\* one read of read_to_end(&mut out): bytes, the end of the stream, or an error
ReadToEnd(c) ==
    /\ calls[c].pc = "read"
    /\ IF Available(c) # ""
       THEN /\ calls' = [calls EXCEPT ![c].out = @ \o Available(c)]
            /\ UNCHANGED conns
       ELSE IF conns[calls[c].conn].state = "reset"
       THEN Finish(c, Err("ConnectionReset"), "read_to_end failed")
       ELSE /\ conns[calls[c].conn].state = "closed"
            /\ Finish(c, Ok(calls[c].out), "read_to_end")
    /\ UNCHANGED <<cmd_up, stream_vars, parser_vars, sub_vars>>

\* the compositor sends a response on connection i, whole or its first half
PeerRespond(i, bodies) ==
    /\ conns[i].state = "open"
    /\ ~conns[i].released
    /\ IF conns[i].plan.some
       THEN /\ Len(conns[i].resp) < Len(conns[i].plan.val)
            /\ conns' = [conns EXCEPT ![i].resp = conns[i].plan.val]
       ELSE \E b \in bodies : \E k \in {Len(b), Len(b) \div 2} :
               conns' = [conns EXCEPT ![i].plan = Some(b), ![i].resp = SubSeq(b, 1, k)]
    /\ UNCHANGED <<cmd_up, calls, stream_vars, parser_vars, sub_vars>>

\* the compositor closes connection i, in order or with request bytes unread
PeerShutdown(i) ==
    /\ conns[i].state = "open"
    /\ ~conns[i].released
    /\ \E st \in {"closed", "reset"} : conns' = [conns EXCEPT ![i].state = st]
    /\ UNCHANGED <<cmd_up, calls, stream_vars, parser_vars, sub_vars>>

CmdNext(callers, methods, bodies) ==
    \/ \E c \in callers : Begin(c, methods)
    \/ \E c \in callers : WriteAll(c)
    \/ \E c \in callers : Flush(c)
    \/ \E c \in callers : ReadToEnd(c)
    \/ \E i \in DOMAIN conns : PeerRespond(i, bodies)
    \/ \E i \in DOMAIN conns : PeerShutdown(i)

\* the calls of main.rs: a fetch, and the switch to a workspace
Methods ==
    {[kind |-> "workspaces"],
     [kind |-> "dispatch", d |-> [v |-> "ChangeWorkspace", spec |-> [v |-> "Id", n |-> 1]]]}

\* the compositor's answer to a dispatch
Bodies == {"ok"}

CommandInit ==
    /\ sig_set \in BOOLEAN
    /\ cmd_up \in BOOLEAN
    /\ sock_up = TRUE
    /\ pc = "start"
    /\ resume = "none"
    /\ sock = ""
    /\ sent = 0
    /\ eof = FALSE
    /\ rpos = 0
    /\ line = ""
    /\ items = << >>
    /\ reads = << >>
    /\ connects = 0
    /\ calls = [c \in 1 .. MaxCalls |-> IdleCall]
    /\ conns = [c \in 1 .. MaxCalls |-> NoConn]
    /\ ParserIdle
    /\ SubIdle

CommandNext == CmdNext(1 .. MaxCalls, Methods, Bodies)

\* concurrent command calls
CommandSpec == CommandInit /\ [][CommandNext]_vars

\* response bodies: records of j/workspaces and j/clients, good and bad
WorkspaceJson ==
    "{\"id\":1,\"name\":\"1\",\"monitor\":\"eDP-1\",\"monitorID\":0,\"windows\":2,"
    \o "\"hasfullscreen\":false,\"lastwindow\":\"0x55d2a1\",\"lastwindowtitle\":\"term\"}"

\* lastwindowtitle is missing
WorkspaceJsonMissing ==
    "{\"id\":2,\"name\":\"2\",\"monitor\":\"eDP-1\",\"monitorID\":0,\"windows\":0,"
    \o "\"hasfullscreen\":false,\"lastwindow\":\"0x0\"}"

\* windows is a string
WorkspaceJsonIllTyped ==
    "{\"id\":2,\"name\":\"2\",\"monitor\":\"eDP-1\",\"monitorID\":0,\"windows\":\"0\","
    \o "\"hasfullscreen\":false,\"lastwindow\":\"0x0\",\"lastwindowtitle\":\"\"}"

ClientJson ==
    "{\"address\":\"0x1a2b\",\"title\":\"zsh\",\"monitor\":0,"
    \o "\"workspace\":{\"id\":-98,\"name\":\"special\"},\"pid\":77}"

\* the name of the workspace is missing
ClientJsonMissing ==
    "{\"address\":\"0x1a2c\",\"title\":\"vim\",\"monitor\":0,\"workspace\":{\"id\":1}}"

ResponseBodies ==
    {"ok", "Invalid dispatcher", "[]",
     "[" \o WorkspaceJson \o "]",
     "[" \o WorkspaceJson \o ",\n " \o WorkspaceJson \o "]\n",
     "[" \o WorkspaceJson \o "," \o WorkspaceJsonMissing \o "]",
     "[" \o WorkspaceJsonIllTyped \o "," \o WorkspaceJson \o "]",
     "[" \o WorkspaceJson \o "] ]",
     WorkspaceJson,
     "[" \o ClientJson \o "]",
     "[" \o ClientJson \o "," \o ClientJsonMissing \o "]",
     "[" \o ClientJsonMissing \o "," \o ClientJson \o "]"}

ResponseMethods ==
    {[kind |-> "workspaces"], [kind |-> "clients"]}
    \cup {[kind |-> "dispatch", d |-> [v |-> "ChangeWorkspace", spec |-> sp]] :
             sp \in {[v |-> "Id", n |-> 1], [v |-> "RelativeId", n |-> -1],
                     [v |-> "Empty", next |-> TRUE, monitor |-> TRUE]}}

ResponseInit ==
    /\ StreamIdle
    /\ ParserIdle
    /\ CmdIdle
    /\ SubIdle

ResponseNext == CmdNext({1}, ResponseMethods, ResponseBodies)

\* one command call and every response to it
ResponseSpec == ResponseInit /\ [][ResponseNext]_vars

(***************************************************************************)
(* main.rs, fetch_workspaces, fetch_clients and the arms UpdateWorkspaces  *)
(* and UpdateClients of Bar::update.  A fetch is a task of its own: a      *)
(* command call whose result, once unwrapped, is the message that update   *)
(* handles.  The fetches are issued in the order of the callers, one for   *)
(* each event that asks for one; nothing orders their completions.         *)
(***************************************************************************)
\* update returns fetch_workspaces() or fetch_clients(): the task starts
Fetch(c) ==
    /\ \A d \in 1 .. c - 1 : calls[d].pc # "idle"
    /\ Begin(c, {[kind |-> "workspaces"], [kind |-> "clients"]})

\* workspaces.into_iter().map(|w| (w.id, w)).collect(): the map by id
UpdateWorkspaces(workspaces) ==
    [id \in {workspaces[k][1] : k \in DOMAIN workspaces} |->
        workspaces[CHOOSE k \in DOMAIN workspaces :
                      /\ workspaces[k][1] = id
                      /\ \A l \in DOMAIN workspaces : l > k => workspaces[l][1] # id]]

\* the task of caller c ends: unwrap panics on Err and there is no message;
\* on Ok the message reaches update, which replaces the map or the list
Update(c) ==
    /\ calls[c].pc = "done"
    /\ c \notin bar.handled
    /\ bar' = IF ~calls[c].res.val.ok THEN [bar EXCEPT !.handled = @ \cup {c}]
              ELSE IF calls[c].method.kind = "workspaces"
              THEN [bar EXCEPT !.handled = @ \cup {c},
                               !.workspaces = UpdateWorkspaces(calls[c].res.val.val)]
              ELSE [bar EXCEPT !.handled = @ \cup {c}, !.clients = calls[c].res.val.val]
    /\ UNCHANGED <<stream_vars, parser_vars, cmd_vars, queue, parked, received>>

FetchInit ==
    /\ StreamIdle
    /\ ParserIdle
    /\ CmdIdle
    /\ SubIdle

\* the fetches and the compositor, which answers with one of three snapshots
FetchNext ==
    \/ \E c \in 1 .. MaxCalls : Fetch(c)
    \/ \E c \in 1 .. MaxCalls : WriteAll(c)
    \/ \E c \in 1 .. MaxCalls : Flush(c)
    \/ \E c \in 1 .. MaxCalls : ReadToEnd(c)
    \/ \E i \in DOMAIN conns :
          PeerRespond(i, {"[]", "[" \o WorkspaceJson \o "]", "[" \o ClientJson \o "]"})
    \/ \E i \in DOMAIN conns : PeerShutdown(i)
    \/ \E c \in 1 .. MaxCalls : Update(c)

FetchSpec == FetchInit /\ [][FetchNext]_vars

(***************************************************************************)
(* main.rs, Bar::subscription: stream::channel(4, ..) runs the `for await` *)
(* over EventStream::listen with the Sender of a futures mpsc channel.     *)
(* tx.send(msg).await is poll_ready, start_send and poll_flush: the        *)
(* message is pushed, the sender is parked when the channel then holds     *)
(* more than its buffer, and the send completes once the sender is not     *)
(* parked; the receiver unparks it when it takes a message.                *)
(***************************************************************************)
\* the buffer of stream::channel(4, ..)
ChannelBuffer == 4

\* mutant: a message that finds the buffer full is dropped
start_send_DropsWhenFull(q, msg) ==
    IF Len(q) >= ChannelBuffer THEN [queue |-> q, parked |-> FALSE]
    ELSE [queue |-> Append(q, msg), parked |-> FALSE]

\* Sender::start_send: push, and park the sender over the buffer
start_send(q, msg) ==
    [queue |-> Append(q, msg), parked |-> Len(q) + 1 > ChannelBuffer]

\* the arm Ok(event): tx.send(Message::HyprlandEvent(event)) up to its flush
Send ==
    /\ pc = "yield"
    /\ items[Len(items)].it.ok
    /\ ~parked
    /\ queue' = start_send(queue, items[Len(items)].it.val).queue
    /\ parked' = start_send(queue, items[Len(items)].it.val).parked
    /\ pc' = "flush"
    /\ UNCHANGED <<sig_set, sock_up, resume, sock, sent, eof, rpos, line, items, reads,
                   connects, received, bar, parser_vars, cmd_vars>>

\* the send completes and the loop polls the generator again
Sent ==
    /\ pc = "flush"
    /\ ~parked
    /\ pc' = resume
    /\ resume' = "none"
    /\ UNCHANGED <<sig_set, sock_up, sock, sent, eof, rpos, line, items, reads, connects,
                   parser_vars, cmd_vars, sub_vars>>

\* the arm Err(event): eprintln, and the loop polls the generator again
Log ==
    /\ pc = "yield"
    /\ ~items[Len(items)].it.ok
    /\ pc' = resume
    /\ resume' = "none"
    /\ UNCHANGED <<sig_set, sock_up, sock, sent, eof, rpos, line, items, reads, connects,
                   parser_vars, cmd_vars, sub_vars>>

\* the receiver takes the first message and unparks the sender
Recv ==
    /\ queue # << >>
    /\ received' = Append(received, Head(queue))
    /\ queue' = Tail(queue)
    /\ parked' = FALSE
    /\ UNCHANGED <<stream_vars, parser_vars, cmd_vars, bar>>

\* two events that differ, and a record that yields an Err
SubChunks == {"workspacev2>>1,a\n", "workspacev2>>2,b\n", "garbage\n"}

SubscriptionInit ==
    /\ StreamIdle
    /\ ParserIdle
    /\ CmdIdle
    /\ SubIdle

SubscriptionNext ==
    \/ Listen
    \/ PeerSend(SubChunks, MaxSubRecords)
    \/ ReadLineOk(MaxSubRecords)
    \/ Send
    \/ Sent
    \/ Log
    \/ Recv

\* the event stream behind the channel of the subscription
SubscriptionSpec == SubscriptionInit /\ [][SubscriptionNext]_vars

(***************************************************************************)
(* Reading the histories.                                                  *)
(***************************************************************************)
\* the items that iteration i yielded (0: the connect phase)
ItemsOf(i) == SelectSeq(items, LAMBDA e : e.iter = i)

\* the bytes of the connection that read i took
BytesOf(i) == SubSeq(sock, reads[i].off + 1, reads[i].off + reads[i].n)

\* the record of read i: the text that is split, which is the line without its
\* last character (the newline of a terminated line)
RecordOf(i) == pop(reads[i].buf)

HasSeparator(l) == \E k \in 1 .. Len(l) - 1 : SubSeq(l, k, k + 1) = ">>"

\* the tag of a record that has a separator: the text before the first one
TagOf(l) ==
    SubSeq(l, 1, (CHOOSE k \in 1 .. Len(l) - 1 :
                     /\ SubSeq(l, k, k + 1) = ">>"
                     /\ \A j \in 1 .. k - 1 : SubSeq(l, j, j + 1) # ">>") - 1)

\* the generator is inside the loop, at read_line or at a yield of the loop
Streaming == pc = "loop" \/ (pc = "yield" /\ resume = "loop")

(***************************************************************************)
(* C1: when the socket path cannot be resolved or the connect fails,       *)
(* listen yields exactly one Err item and then returns: no other item, no  *)
(* read_line, and without the environment variable no connect either.      *)
(***************************************************************************)
C1_ConnectFailureYieldsOneErrThenEnds ==
    (~sig_set \/ ~sock_up) =>
        /\ Len(reads) = 0
        /\ rpos = 0
        /\ connects <= 1
        /\ ((sig_set /\ pc \in {"yield", "done"}) => connects = 1)
        /\ (~sig_set => connects = 0)
        /\ pc # "loop"
        /\ Len(items) <= 1
        /\ (pc \in {"yield", "done"} =>
               /\ Len(items) = 1
               /\ ~items[1].it.ok
               /\ items[1].it.err = (IF sig_set THEN "failed to connect to event stream"
                                     ELSE "HYPRLAND_INSTANCE_SIGNATURE not set"))
        /\ (pc = "yield" => resume = "done")

C1_Witness ==
    /\ ~sig_set
    /\ pc = "done"
    /\ Len(items) = 1
    /\ connects = 0

(***************************************************************************)
(* C2: once connected, the generator leaves the loop only by being         *)
(* dropped: whatever read_line returns, it goes on to the next read_line,  *)
(* never returns and never connects again.                                 *)
(***************************************************************************)
C2_StreamingEndsOnlyByDrop ==
    [][Streaming =>
          /\ connects' = connects
          /\ pc' # "done"
          /\ (pc' = "yield" => resume' = "loop")
          /\ (pc' = "dropped" => UNCHANGED <<items, reads, rpos, line>>)]_vars

C2_Witness ==
    /\ pc = "loop"
    /\ eof
    /\ Len(reads) = 2
    /\ ~reads[1].ok
    /\ reads[2].ok /\ reads[2].n = 0

(***************************************************************************)
(* C3: a read_line that fails yields exactly one Err item with that error  *)
(* and the loop goes on to the next read_line, whose line holds exactly    *)
(* the bytes that read took: nothing of the failed read is left in it.     *)
(***************************************************************************)
C3_ReadErrorYieldsOneErrAndLeavesNothing ==
    \A i \in 1 .. Len(reads) :
        ~reads[i].ok =>
            /\ ItemsOf(i) = <<[it |-> Err("read error"), iter |-> i]>>
            /\ (i = Len(reads) => Streaming \/ pc = "dropped")
            /\ (i < Len(reads) =>
                   /\ reads[i + 1].off = reads[i].off + reads[i].n
                   /\ reads[i + 1].buf = BytesOf(i + 1))

C3_Witness ==
    /\ Len(reads) = 2
    /\ ~reads[1].ok
    /\ reads[1].n > 0
    /\ reads[2].ok
    /\ reads[2].n > 0

(***************************************************************************)
(* C4: of the records read that have a separator, each one with a legacy   *)
(* tag yields no item, whatever its payload, and each other one yields     *)
(* exactly one item; the items are in the order of their records.          *)
(***************************************************************************)
C4_OneItemPerRecordNoneForLegacy ==
    /\ \A i \in 1 .. Len(reads) :
          (reads[i].ok /\ HasSeparator(RecordOf(i))) =>
              Len(ItemsOf(i)) =
                  (IF TagOf(RecordOf(i)) \in
                        {"workspace", "activewindow", "monitoradded", "createworkspace",
                         "destroyworkspace", "moveworkspace", "movewindow", "windowtitle"}
                   THEN 0 ELSE 1)
    /\ \A j \in 1 .. Len(items) - 1 : items[j].iter < items[j + 1].iter

C4_Witness ==
    /\ Len(reads) = 2
    /\ reads[1].ok /\ reads[1].buf = "windowtitle>>1a2b\n"
    /\ reads[2].ok /\ reads[2].buf = "windowtitlev2>>zz,t\n"
    /\ Len(items) = 1
    /\ items[1].iter = 2

\* the tokens of the payload of a record that has a separator
TokensOf(l) == split(SubSeq(l, Len(TagOf(l)) + 3, Len(l)), ",")

\* iteration i yielded exactly this one item
YieldedOnly(i, item) == ItemsOf(i) = <<[it |-> item, iter |-> i]>>

(***************************************************************************)
(* C5: a record of a known tag yields one item, which is either an event   *)
(* of that tag's variant with every declared field or one Err; a payload   *)
(* with too few tokens, a bad base-16 id or address or a bad boolean       *)
(* yields the Err; and the records after it decode as they always do.      *)
(***************************************************************************)
C5_DecodeIsAllOrNothing ==
    \A i \in 1 .. Len(reads) :
        /\ (reads[i].ok /\ HasSeparator(RecordOf(i)) /\ TagOf(RecordOf(i)) \in KnownTags) =>
              /\ Len(ItemsOf(i)) = 1
              /\ ItemsOf(i)[1].it.ok =>
                    /\ ItemsOf(i)[1].it.val.type = EventShape(TagOf(RecordOf(i))).type
                    /\ Len(ItemsOf(i)[1].it.val.args) = FieldCount(ItemsOf(i)[1].it.val.type)
              /\ (\/ Len(TokensOf(RecordOf(i))) < Len(EventShape(TagOf(RecordOf(i))).fields)
                  \/ RecordOf(i) \in {"closewindow>>0x1a2b", "movewindowv2>>1a,g,web",
                                      "pin>>1a,yes"})
                 => ~ItemsOf(i)[1].it.ok
        /\ (reads[i].ok /\ reads[i].buf = "workspacev2>>3,web\n") =>
              YieldedOnly(i, Ok([type |-> "WorkspaceChanged", args |-> <<3, "web">>]))
        /\ (reads[i].ok /\ reads[i].buf = "closewindow>>1a2b\n") =>
              YieldedOnly(i, Ok([type |-> "CloseWindow", args |-> <<<<1, 10, 2, 11>>>>]))

C5_Witness ==
    /\ Len(reads) = 2
    /\ reads[1].ok /\ reads[1].buf = "movewindowv2>>1a,g,web\n"
    /\ reads[2].ok /\ reads[2].buf = "workspacev2>>3,web\n"
    /\ Len(items) = 2
    /\ items[1].it = Err("invalid integer")
    /\ items[2].it.ok

(***************************************************************************)
(* C6: a record whose tag is neither known nor legacy yields exactly one   *)
(* Err "unknown event"; the loop goes on, and the record after it is read  *)
(* from where that one ended and decodes as it always does.                *)
(***************************************************************************)
C6_UnknownTagYieldsOneErrAndGoesOn ==
    \A i \in 1 .. Len(reads) :
        (/\ reads[i].ok
         /\ HasSeparator(RecordOf(i))
         /\ TagOf(RecordOf(i)) \notin KnownTags \cup LegacyTags) =>
            /\ YieldedOnly(i, Err("unknown event"))
            /\ (i = Len(reads) => Streaming \/ pc = "dropped")
            /\ (i < Len(reads) /\ reads[i + 1].ok) =>
                  /\ reads[i + 1].off = reads[i].off + reads[i].n
                  /\ reads[i + 1].buf = BytesOf(i + 1)
                  /\ (reads[i + 1].buf = "workspacev2>>3,web\n" =>
                         YieldedOnly(i + 1, Ok([type |-> "WorkspaceChanged",
                                                args |-> <<3, "web">>])))
                  /\ (reads[i + 1].buf = "workspace>>3\n" => ItemsOf(i + 1) = << >>)
                  /\ (reads[i + 1].buf = "garbage\n" =>
                         YieldedOnly(i + 1, Err("invalid event format")))

C6_Witness ==
    /\ Len(reads) = 2
    /\ reads[1].ok /\ reads[1].buf = "bogus>>x,y\n"
    /\ reads[2].ok /\ reads[2].buf = "workspacev2>>3,web\n"
    /\ Len(items) = 2
    /\ items[1].it = Err("unknown event")
    /\ items[2].it.ok

(***************************************************************************)
(* C7: a record is split at its first ">>", so a later ">>" belongs to the *)
(* payload; a record without ">>" yields exactly one Err "invalid event    *)
(* format", nothing is decoded of it, and the loop goes on.                *)
(***************************************************************************)
C7_SplitAtFirstSeparator ==
    \A i \in 1 .. Len(reads) :
        reads[i].ok =>
            /\ ~HasSeparator(RecordOf(i)) =>
                  /\ YieldedOnly(i, Err("invalid event format"))
                  /\ (i = Len(reads) => Streaming \/ pc = "dropped")
            /\ reads[i].buf = "submap>>a>>b\n" =>
                  YieldedOnly(i, Ok([type |-> "SubMap", args |-> <<"a>>b">>]))

C7_Witness ==
    /\ Len(reads) = 2
    /\ reads[1].ok /\ reads[1].buf = "garbage\n"
    /\ reads[2].ok /\ reads[2].buf = "submap>>a>>b\n"
    /\ Len(items) = 2
    /\ items[1].it = Err("invalid event format")
    /\ items[2].it.ok

(***************************************************************************)
(* C8: the record `togglegroup>>1,1a,2b` yields one Ok item, a ToggleGroup *)
(* with created = true and one handle for each of the tokens 1a and 2b.    *)
(***************************************************************************)
C8_ToggleGroupNumericFlagDecodes ==
    \A i \in 1 .. Len(reads) :
        (reads[i].ok /\ reads[i].buf = "togglegroup>>1,1a,2b\n") =>
            /\ Len(ItemsOf(i)) = 1
            /\ ItemsOf(i)[1].it.ok
            /\ ItemsOf(i)[1].it.val.type = "ToggleGroup"
            /\ ItemsOf(i)[1].it.val.args[1] = TRUE
            /\ Len(ItemsOf(i)[1].it.val.args[2]) = 2

(***************************************************************************)
(* C9: next_bool returns true for "true", false for "false" and the error  *)
(* "invalid boolean" for every other token, and has consumed the token in  *)
(* each case; so an event with a boolean field is an Err when the token of *)
(* that field is any other token.                                          *)
(***************************************************************************)
C9_BoolFieldPositions(event) ==
    CASE event \in {"fullscreen", "togglegroup", "ignoregrouplock", "lockgroups"} -> {1}
      [] event \in {"changefloatingmode", "pin"} -> {2}
      [] event \in {"screencast"} -> {1, 2}
      [] OTHER -> {}

C10_PrefixOnlyOnJsonPath ==
    /\ (ret.op = "window_address" /\ ret.before # << >>) =>
          /\ Head(ret.before) = "1a2b" => ret.res = Ok(<<1, 10, 2, 11>>)
          /\ Head(ret.before) = "0x1a2b" => ret.res = Err("invalid integer")
    /\ (ret.op = "deserialize" /\ ret.arg \in {"1a2b", "0x1a2b"}) =>
          ret.res = Ok(<<1, 10, 2, 11>>)

C10_Witness ==
    /\ ret.op = "window_address"
    /\ ret.before # << >>
    /\ Head(ret.before) = "0x1a2b"
    /\ ret.res = Err("invalid integer")

\* the text has a character that is no base-16 digit
HasNonHex(t) == \E k \in 1 .. Len(t) : FindFrom("0123456789abcdefABCDEF", CharAt(t, k), 1) = 0

\* the first token of the payload last decoded
FirstToken == split(dp_in, ",")[1]

(***************************************************************************)
(* C11: for the tag activewindowv2 an empty first token decodes to         *)
(* ActiveWindow with no address, a first token of base-16 digits within 64 *)
(* bits decodes to ActiveWindow with that address, and a non-empty token   *)
(* never decodes to no address: one with a character that is no base-16    *)
(* digit, or with more than 64 bits, yields the Err "invalid integer".     *)
(***************************************************************************)
C11_ActiveWindowAddressIsNoneOnlyWhenEmpty ==
    (ret.op = "decode" /\ ret.event = "activewindowv2") =>
        /\ ret.res.yield
        /\ FirstToken = "" =>
              ret.res.item = Ok([type |-> "ActiveWindow", args |-> <<None>>])
        /\ FirstToken \in {"1a2b", "1A2B"} =>
              ret.res.item = Ok([type |-> "ActiveWindow", args |-> <<Some(<<1, 10, 2, 11>>)>>])
        /\ FirstToken = "10" =>
              ret.res.item = Ok([type |-> "ActiveWindow", args |-> <<Some(<<1, 0>>)>>])
        /\ FirstToken = "ffffffffffffffff" =>
              ret.res.item = Ok([type |-> "ActiveWindow",
                                 args |-> <<Some([k \in 1 .. 16 |-> 15])>>])
        /\ (FirstToken # "" /\ ret.res.item.ok) => ret.res.item.val.args[1].some
        /\ (FirstToken # "" /\ HasNonHex(FirstToken) /\ CharAt(FirstToken, 1) # "+") =>
              ret.res.item = Err("invalid integer")
        /\ FirstToken = "10000000000000000" => ret.res.item = Err("invalid integer")

C11_Witness ==
    /\ ret.op = "decode"
    /\ ret.event = "activewindowv2"
    /\ dp_in = "zz,1a2b"
    /\ ret.res.item = Err("invalid integer")

\* a decimal numeral: digits only, no leading zero but in "0"
Canonical(t) ==
    /\ Len(t) >= 1
    /\ \A k \in 1 .. Len(t) : FindFrom("0123456789", CharAt(t, k), 1) > 0
    /\ (Len(t) > 1 => CharAt(t, 1) # "0")

\* out is prefix, then the sign of n, then the decimal magnitude of n
C12_Signed(prefix, n, out) ==
    /\ Len(out) >= Len(prefix) + 2
    /\ SubSeq(out, 1, Len(prefix)) = prefix
    /\ CharAt(out, Len(prefix) + 1) = (IF n >= 0 THEN "+" ELSE "-")
    /\ Canonical(SubSeq(out, Len(prefix) + 2, Len(out)))
    /\ i32_from_str_radix(SubSeq(out, Len(prefix) + 1, Len(out)), 10) = Ok(n)

\* out is prefix, then the decimal numeral of the u32 n
C12_Unsigned(prefix, n, out) ==
    /\ SubSeq(out, 1, Len(prefix)) = prefix
    /\ Canonical(SubSeq(out, Len(prefix) + 1, Len(out)))
    /\ u64_from_str_radix(SubSeq(out, Len(prefix) + 1, Len(out)), 10) = Ok(n)

\* out is the literal of the table for spec (Empty has a claim of its own)
C12_Literal(spec, out) ==
    CASE spec.v = "Id" ->
            /\ Canonical(IF spec.n < 0 THEN Tail(out) ELSE out)
            /\ (spec.n < 0 => CharAt(out, 1) = "-")
            /\ i32_from_str_radix(out, 10) = Ok(spec.n)
      [] spec.v = "RelativeId" -> C12_Signed("", spec.n, out)
      [] spec.v = "MonitorRelativeId" -> C12_Signed("m", spec.n, out)
      [] spec.v = "MonitorIncludingEmptyRelativeId" -> C12_Signed("r", spec.n, out)
      [] spec.v = "OpenRelativeId" -> C12_Signed("e", spec.n, out)
      [] spec.v = "MonitorAbsoluteId" -> C12_Unsigned("m~", spec.n, out)
      [] spec.v = "MonitorIncludingEmptyAbsoluteId" -> C12_Unsigned("r~", spec.n, out)
      [] spec.v = "OpenAbsoluteId" -> C12_Unsigned("e~", spec.n, out)
      [] spec.v = "Name" -> out = "name:" \o spec.s
      [] spec.v = "Previous" -> out = "previous"
      [] spec.v = "PreviousPerMonitor" -> out = "previous_per_monitor"
      [] spec.v = "Special" ->
            out = (IF spec.s.some THEN "special:" \o spec.s.val ELSE "special")
      [] spec.v = "Empty" -> TRUE

\* the examples of the table and of tests::workspace_spec
C12_Examples ==
    {<<[v |-> "Id", n |-> 1], "1">>, <<[v |-> "Id", n |-> -10], "-10">>,
     <<[v |-> "Id", n |-> I32Min], "-2147483648">>,
     <<[v |-> "RelativeId", n |-> 1], "+1">>, <<[v |-> "RelativeId", n |-> -1], "-1">>,
     <<[v |-> "RelativeId", n |-> 0], "+0">>,
     <<[v |-> "MonitorRelativeId", n |-> 1], "m+1">>,
     <<[v |-> "MonitorRelativeId", n |-> -1], "m-1">>,
     <<[v |-> "MonitorAbsoluteId", n |-> <<1>>], "m~1">>,
     <<[v |-> "MonitorIncludingEmptyRelativeId", n |-> 1], "r+1">>,
     <<[v |-> "MonitorIncludingEmptyAbsoluteId", n |-> <<1>>], "r~1">>,
     <<[v |-> "OpenRelativeId", n |-> 1], "e+1">>,
     <<[v |-> "OpenAbsoluteId", n |-> <<1>>], "e~1">>,
     <<[v |-> "OpenAbsoluteId", n |-> <<15, 15, 15, 15, 15, 15, 15, 15>>], "e~4294967295">>,
     <<[v |-> "Name", s |-> "web"], "name:web">>,
     <<[v |-> "Special", s |-> Some("scratch")], "special:scratch">>}

(***************************************************************************)
(* C12: to_string of a WorkspaceSpec is the literal of the table: Id(n) is *)
(* the plain decimal of n, which parses back to n; the relative variants   *)
(* are the prefix (none, m, r, e), then '+' for n >= 0, zero included, or  *)
(* '-' for n < 0, then the decimal magnitude; the absolute variants are    *)
(* m~, r~, e~ and the unsigned decimal; Name, Previous, PreviousPerMonitor *)
(* and Special are their literals; and to_string of ChangeWorkspace(spec)  *)
(* is "workspace " followed by that encoding.                              *)
(***************************************************************************)
C12_EncoderProducesTheLiterals ==
    /\ ret.op = "to_string" =>
          /\ C12_Literal(ret.arg, ret.res)
          /\ \A e \in C12_Examples : ret.arg = e[1] => ret.res = e[2]
    /\ ret.op = "dispatcher_to_string" =>
          /\ SubSeq(ret.res, 1, 10) = "workspace "
          /\ C12_Literal(ret.arg, SubSeq(ret.res, 11, Len(ret.res)))
          /\ \A e \in C12_Examples : ret.arg = e[1] => ret.res = "workspace " \o e[2]

C12_Witness ==
    /\ ret.op = "dispatcher_to_string"
    /\ ret.arg = [v |-> "MonitorRelativeId", n |-> 0]
    /\ ret.res = "workspace m+0"

(***************************************************************************)
(* C13 as stated: Empty{next, monitor} encodes to "empty", then "n" if and *)
(* only if next, then "m" if and only if monitor, the "n" before the "m".  *)
(***************************************************************************)
C13_EmptySuffixesNextThenMonitor ==
    (ret.op = "to_string" /\ ret.arg.v = "Empty") =>
        ret.res = "empty" \o (IF ret.arg.next THEN "n" ELSE "")
                          \o (IF ret.arg.monitor THEN "m" ELSE "")

(***************************************************************************)
(* C13 amended: Empty{next, monitor} encodes to "empty", then "m" if and   *)
(* only if monitor, then "n" if and only if next, the "m" before the "n".  *)
(***************************************************************************)
C13_EmptySuffixesMonitorThenNext ==
    (ret.op = "to_string" /\ ret.arg.v = "Empty") =>
        ret.res = "empty" \o (IF ret.arg.monitor THEN "m" ELSE "")
                          \o (IF ret.arg.next THEN "n" ELSE "")

C13_Witness ==
    /\ ret.op = "to_string"
    /\ ret.arg = [v |-> "Empty", next |-> TRUE, monitor |-> TRUE]
    /\ ret.res = "emptymn"

\* s is an initial part of t
IsPrefix(s, t) == Len(s) <= Len(t) /\ SubSeq(t, 1, Len(s)) = s

\* the command of each method, as the protocol spells it
C14_Request(m) ==
    IF m.kind = "workspaces" THEN "j/workspaces"
    ELSE IF m.kind = "clients" THEN "j/clients"
    ELSE IF m.d.spec = [v |-> "Id", n |-> 1] THEN "j/dispatch workspace 1"
    ELSE IF m.d.spec = [v |-> "RelativeId", n |-> -1] THEN "j/dispatch workspace -1"
    ELSE "j/dispatch workspace emptymn"

\* the steps of a call that met no error
C14_Steps == <<"connect", "write_all", "flush", "read_to_end", "release">>

(***************************************************************************)
(* C14: every command call has a connection of its own, and on it the      *)
(* steps come in the order connect, write of the whole command, flush,     *)
(* read to the end, release; what is written on a connection is an initial *)
(* part of the one command of its one call, under every interleaving of    *)
(* the calls; exec returns Ok with all the bytes the compositor sent, in   *)
(* order, and no call returns while the compositor keeps its connection    *)
(* open.                                                                   *)
(***************************************************************************)
C14_OneRequestPerConnection ==
    /\ \A c \in DOMAIN calls :
          calls[c].conn # 0 =>
              /\ conns[calls[c].conn].state # "none"
              /\ \A c2 \in DOMAIN calls \ {c} : calls[c2].conn # calls[c].conn
              /\ conns[calls[c].conn].writers \subseteq {c}
              /\ IsPrefix(conns[calls[c].conn].written, C14_Request(calls[c].method))
              /\ Len(conns[calls[c].conn].written) = calls[c].woff
              /\ (IsPrefix(calls[c].steps, C14_Steps)
                  \/ calls[c].steps = <<"connect", "write_all failed", "release">>
                  \/ calls[c].steps
                       = <<"connect", "write_all", "flush", "read_to_end failed", "release">>)
              /\ (calls[c].pc \in {"flush", "read"} \/ Len(calls[c].steps) > 3) =>
                    conns[calls[c].conn].written = C14_Request(calls[c].method)
              /\ calls[c].pc = "read" => IsPrefix(calls[c].out, conns[calls[c].conn].resp)
              /\ conns[calls[c].conn].released = (calls[c].pc = "done")
              /\ calls[c].pc = "done" =>
                    /\ conns[calls[c].conn].state \in {"closed", "reset"}
                    /\ calls[c].exec.val.ok =>
                          /\ calls[c].steps = C14_Steps
                          /\ conns[calls[c].conn].state = "closed"
                          /\ calls[c].exec.val.val = conns[calls[c].conn].resp
    /\ \A i \in DOMAIN conns :
          conns[i].state # "none" => \E c \in DOMAIN calls : calls[c].conn = i

C14_Witness ==
    /\ calls[1].pc = "done" /\ calls[1].exec = Some(Ok("ok"))
    /\ calls[2].pc = "read" /\ calls[2].out = "o"
    /\ conns[2].state = "open"
    /\ calls[1].conn = 1 /\ calls[2].conn = 2

(***************************************************************************)
(* C15: without HYPRLAND_INSTANCE_SIGNATURE a call attempts no connect,    *)
(* and when the connect fails it is attempted once, no connection exists   *)
(* and no byte of a command is written; in both cases the call returns     *)
(* that one failure.                                                       *)
(***************************************************************************)
C15_FailureBeforeRequestHasNoEffects ==
    \A c \in DOMAIN calls :
        /\ calls[c].attempts <= 1
        /\ (~sig_set \/ ~cmd_up) =>
              /\ calls[c].pc \in {"idle", "done"}
              /\ calls[c].conn = 0
              /\ calls[c].steps = << >>
              /\ \A i \in DOMAIN conns : conns[i].state = "none" /\ conns[i].written = ""
              /\ calls[c].attempts = (IF sig_set /\ calls[c].pc = "done" THEN 1 ELSE 0)
              /\ calls[c].pc = "done" =>
                    calls[c].res =
                       Some(Err(IF sig_set THEN "failed to connect to event stream"
                                ELSE "HYPRLAND_INSTANCE_SIGNATURE not set"))

C15_Witness ==
    /\ sig_set
    /\ ~cmd_up
    /\ calls[1].pc = "done" /\ calls[1].attempts = 1
    /\ calls[2].pc = "done" /\ calls[2].attempts = 1
    /\ calls[1].res = Some(Err("failed to connect to event stream"))

\* the lists the good response bodies hold
C16_Workspace == <<1, "1", "eDP-1", 0, 2, FALSE, <<5, 5, 13, 2, 10, 1>>, "term">>

C16_Client == <<<<1, 10, 2, 11>>, "zsh", 0, <<-98, "special">>>>

\* what a call of this kind returns for the response text out
C16_Expected(kind, out) ==
    IF out = "[]" THEN Ok(<< >>)
    ELSE IF kind = "workspaces" /\ out = "[" \o WorkspaceJson \o "]"
    THEN Ok(<<C16_Workspace>>)
    ELSE IF kind = "workspaces" /\ out = "[" \o WorkspaceJson \o ",\n " \o WorkspaceJson \o "]\n"
    THEN Ok(<<C16_Workspace, C16_Workspace>>)
    ELSE IF kind = "clients" /\ out = "[" \o ClientJson \o "]"
    THEN Ok(<<C16_Client>>)
    ELSE Err("InvalidData")

(***************************************************************************)
(* C16: workspaces() and clients() return Ok with the whole list when the  *)
(* response is a JSON array whose records all have every required field    *)
(* well typed, and the error InvalidData for every other response: text    *)
(* that is no JSON or is cut short, a value that is no array, and an array *)
(* with one record that misses a field or has one of the wrong type,       *)
(* wherever that record stands; never a part of the records.               *)
(***************************************************************************)
C16_JsonListIsAllOrNothing ==
    \A c \in DOMAIN calls :
        (calls[c].pc = "done" /\ calls[c].method.kind \in {"workspaces", "clients"}
         /\ calls[c].exec.some) =>
            IF calls[c].exec.val.ok
            THEN calls[c].res = Some(C16_Expected(calls[c].method.kind, calls[c].exec.val.val))
            ELSE calls[c].res = calls[c].exec

C16_Witness ==
    /\ calls[1].pc = "done"
    /\ calls[1].method.kind = "workspaces"
    /\ calls[1].exec = Some(Ok("[" \o WorkspaceJson \o "," \o WorkspaceJsonMissing \o "]"))
    /\ calls[1].res = Some(Err("InvalidData"))

(***************************************************************************)
(* C17: dispatch(d) writes "j/dispatch " followed by the encoding of d and *)
(* nothing else, and returns Ok(()) exactly when write_all, flush and      *)
(* read_to_end all completed, whatever the response body is; when one of   *)
(* them failed it returns that error.                                      *)
(***************************************************************************)
C17_DispatchIgnoresTheBody ==
    \A c \in DOMAIN calls :
        (calls[c].method.kind = "dispatch" /\ calls[c].conn # 0) =>
            /\ IsPrefix(conns[calls[c].conn].written, C14_Request(calls[c].method))
            /\ SubSeq(C14_Request(calls[c].method), 1, 11) = "j/dispatch "
            /\ calls[c].pc \in {"flush", "read"} =>
                  conns[calls[c].conn].written = C14_Request(calls[c].method)
            /\ calls[c].pc = "done" =>
                  /\ calls[c].res.val.ok <=>
                        calls[c].steps
                           = <<"connect", "write_all", "flush", "read_to_end", "release">>
                  /\ calls[c].res.val.ok =>
                        /\ calls[c].res.val = Ok("()")
                        /\ conns[calls[c].conn].written = C14_Request(calls[c].method)
                  /\ ~calls[c].res.val.ok =>
                        calls[c].res.val \in {Err("BrokenPipe"), Err("ConnectionReset")}

C17_Witness ==
    /\ calls[1].pc = "done"
    /\ calls[1].method.kind = "dispatch"
    /\ conns[1].written = "j/dispatch workspace -1"
    /\ conns[1].resp = "Invalid dispatcher"
    /\ calls[1].out = "Invalid dispatcher"
    /\ calls[1].res = Some(Ok("()"))

RECURSIVE OkValues(_)
\* the events of the Ok items, in the order of their yields
OkValues(its) ==
    IF its = << >> THEN << >>
    ELSE IF Head(its).it.ok THEN <<Head(its).it.val>> \o OkValues(Tail(its))
    ELSE OkValues(Tail(its))

(***************************************************************************)
(* C18: the messages the receiver has taken, followed by those in the      *)
(* channel, are exactly the events of the Ok items yielded, each once and  *)
(* in yield order (the last one is missing only while its send has not yet *)
(* pushed it); the channel never holds more than its buffer of 4 and the   *)
(* one message of the sender; the sender is parked only inside a send with *)
(* the channel full; and from a yield to the end of its send the producer  *)
(* has read no record after the one of that item.                          *)
(***************************************************************************)
C18_LosslessOrderedBackpressure ==
    /\ received \o queue =
          (IF pc = "yield" /\ items[Len(items)].it.ok
           THEN SubSeq(OkValues(items), 1, Len(OkValues(items)) - 1)
           ELSE OkValues(items))
    /\ Len(queue) <= ChannelBuffer + 1
    /\ parked => (pc = "flush" /\ Len(queue) = ChannelBuffer + 1)
    /\ pc \in {"yield", "flush"} => items[Len(items)].iter = Len(reads)

C18_Witness ==
    /\ pc = "flush"
    /\ parked
    /\ Len(queue) = 5
    /\ received = << >>
    /\ Len(reads) = 5
    /\ Unread = "workspacev2>>2,b\n"
    /\ queue[1] = [type |-> "WorkspaceChanged", args |-> <<1, "a">>]

(***************************************************************************)
(* C19: the text that is split is the line read without its trailing       *)
(* newline and nothing else is removed, also when the last line ends at    *)
(* the end of input without a newline: `fullscreen>>true` then decodes to  *)
(* Fullscreen{enter: true}.                                                *)
(***************************************************************************)
C19_OnlyTheNewlineIsRemoved ==
    (Len(reads) > 0 /\ reads[Len(reads)].ok) =>
        /\ line = (IF Len(reads[Len(reads)].buf) > 0
                      /\ CharAt(reads[Len(reads)].buf, Len(reads[Len(reads)].buf)) = "\n"
                   THEN SubSeq(reads[Len(reads)].buf, 1, Len(reads[Len(reads)].buf) - 1)
                   ELSE reads[Len(reads)].buf)
        /\ reads[Len(reads)].buf = "fullscreen>>true" =>
              YieldedOnly(Len(reads), Ok([type |-> "Fullscreen", args |-> <<TRUE>>]))

\* what next_workspace_id returns for each of these tokens
C20_Table ==
    {<<"3", Ok(3)>>, <<"10", Ok(16)>>, <<"1a2b", Ok(6699)>>, <<"1A2B", Ok(6699)>>,
     <<"+1a", Ok(26)>>, <<"-1a", Ok(-26)>>, <<"0", Ok(0)>>, <<"1", Ok(1)>>,
     <<"7fffffff", Ok(2147483647)>>, <<"-80000000", Ok(-2147483647 - 1)>>,
     <<"80000000", Err("invalid integer")>>, <<"-80000001", Err("invalid integer")>>,
     <<"ffffffffffffffff", Err("invalid integer")>>, <<"zz", Err("invalid integer")>>,
     <<"0x1a2b", Err("invalid integer")>>, <<"web", Err("invalid integer")>>,
     <<"", Err("invalid integer")>>, <<"true", Err("invalid integer")>>}

(***************************************************************************)
(* C20: next_workspace_id reads its token as a signed 32-bit integer in    *)
(* base 16: `10` is 16, a leading '-' gives a negative id, 7fffffff and    *)
(* -80000000 are the ends of the range, and a token outside the range or   *)
(* with a character that is no base-16 digit is the error "invalid         *)
(* integer"; `workspacev2>>3,web` decodes to WorkspaceChanged{3, "web"}    *)
(* and `workspacev2>>10,web` to id 16, while the JSON value 10 of a        *)
(* j/clients response is the id 10.                                        *)
(***************************************************************************)
C20_WorkspaceIdIsBase16Signed32 ==
    /\ (ret.op = "workspace_id" /\ ret.before # << >>) =>
          /\ \A e \in C20_Table : Head(ret.before) = e[1] => ret.res = e[2]
          /\ dp = Tail(ret.before)
          /\ ret.res.ok => ret.res.val \in (-2147483647 - 1) .. 2147483647
          /\ (HasNonHex(Head(ret.before))
              /\ ~(Len(Head(ret.before)) > 1 /\ CharAt(Head(ret.before), 1) \in {"+", "-"}))
                => ret.res = Err("invalid integer")
    /\ (ret.op = "decode" /\ ret.event = "workspacev2") =>
          /\ dp_in = "3,web" =>
                ret.res.item = Ok([type |-> "WorkspaceChanged", args |-> <<3, "web">>])
          /\ dp_in = "10,web" =>
                ret.res.item = Ok([type |-> "WorkspaceChanged", args |-> <<16, "web">>])
          /\ dp_in = "80000000,web" => ret.res.item = Err("invalid integer")
    /\ ret.op = "from_slice" =>
          /\ FindFrom(ret.arg, "\"id\":10,", 1) > 0 =>
                ret.res = Ok(<<<<<<1, 10, 2, 11>>, "zsh", 0, <<10, "web">>>>>>)
          /\ FindFrom(ret.arg, "\"id\":-98,", 1) > 0 =>
                ret.res = Ok(<<<<<<1, 10, 2, 11>>, "zsh", 0, <<-98, "web">>>>>>)
          /\ (FindFrom(ret.arg, "\"id\":10,", 1) = 0 /\ FindFrom(ret.arg, "\"id\":-98,", 1) = 0)
                => ret.res = Err("InvalidData")

C20_Witness ==
    /\ ret.op = "workspace_id"
    /\ ret.before = <<"10", "web">>
    /\ ret.res = Ok(16)
    /\ dp = <<"web">>

\* the consumers that take one token
C21_Typed == {"string", "workspace_id", "window_address", "maybe_window_address", "bool"}

\* the tokens the arm of a tag asks for: one for each field but a trailing vector
C21_Needs(event) ==
    Cardinality({j \in 1 .. Len(EventShape(event).fields) :
                    EventShape(event).fields[j] # "vec_window_ids"})

\* the consumes of C21: the cursor, the empty payload, and the result of one call
C21_Cursor ==
    /\ Len(DataParser_new(dp_in)) =
          1 + Cardinality({k \in 1 .. Len(dp_in) : CharAt(dp_in, k) = ","})
    /\ ret.op = "none" => dp = DataParser_new(dp_in)
    /\ ret.op \in C21_Typed =>
          /\ ret.res = Err("unexpected end of data") <=> ret.before = << >>
          /\ ret.before # << >> => dp = Tail(ret.before)
          /\ ret.before = << >> => dp = << >>
    /\ (ret.op = "decode" /\ ret.event = "submap" /\ dp_in = "") =>
          ret.res = [yield |-> TRUE, item |-> Ok([type |-> "SubMap", args |-> <<"">>])]

\* the record of the decode has fewer tokens than the arm of its tag asks for
C21_TooFew ==
    /\ ret.op = "decode"
    /\ ret.event \in KnownTags
    /\ Len(split(dp_in, ",")) < C21_Needs(ret.event)

\* C21 as stated: a record with too few tokens for its tag yields the one item
\* Err "unexpected end of data", whatever its tokens are.
C21_TooFewTokensIsUnexpectedEof ==
    /\ C21_Cursor
    /\ C21_TooFew => ret.res = [yield |-> TRUE, item |-> Err("unexpected end of data")]

(***************************************************************************)
(* C21: a consume of one token fails with "unexpected end of data" exactly *)
(* when no token is left and otherwise advances the cursor by one token,   *)
(* whether or not the token parses; an empty payload is one empty token,   *)
(* so `submap>>` decodes to SubMap{name: ""}; and a record with fewer      *)
(* tokens than its tag asks for yields one Err item, which is "unexpected  *)
(* end of data" exactly when every token it has parses as its field, and   *)
(* the error of the first token that does not parse otherwise.             *)
(***************************************************************************)
C21_TooFewTokensIsUnexpectedEofIfTheyParse ==
    /\ C21_Cursor
    /\ C21_TooFew =>
          LET toks == split(dp_in, ",")
              kinds == EventShape(ret.event).fields
              bad == {j \in 1 .. Len(toks) : ~Consume(kinds[j], <<toks[j]>>).res.ok}
          IN  /\ ret.res.yield
              /\ ~ret.res.item.ok
              /\ ret.res.item = Err("unexpected end of data") <=> bad = {}
              /\ bad # {} =>
                    \E j \in bad :
                       /\ \A i \in bad : j <= i
                       /\ ret.res.item = Consume(kinds[j], <<toks[j]>>).res

C21_Witness ==
    /\ ret.op = "decode"
    /\ ret.event = "monitoraddedv2"
    /\ dp_in = "3,web"
    /\ ret.res = [yield |-> TRUE, item |-> Err("unexpected end of data")]

(***************************************************************************)
(* C22: for a known tag other than togglegroup, a record with at least as  *)
(* many tokens as the tag has fields decodes to what the record cut to     *)
(* that many tokens decodes to, and the tokens after them cause no error:  *)
(* each string field of the event is one token, so a title ends at its     *)
(* first comma; `configreloaded` decodes to ConfigReloaded whatever the    *)
(* payload is.                                                             *)
(***************************************************************************)
C22_TrailingTokensAreIgnored ==
    (ret.op = "decode" /\ ret.event \in KnownTags \ {"togglegroup"}) =>
        LET toks == split(dp_in, ",")
            kinds == EventShape(ret.event).fields
        IN  /\ Len(toks) >= Len(kinds) =>
                  /\ ret.res = decode(ret.event, SubSeq(toks, 1, Len(kinds)))
                  /\ ret.res.yield
                  /\ ret.res.item # Err("unexpected end of data")
                  /\ ret.res.item.ok =>
                        /\ Len(ret.res.item.val.args) = Len(kinds)
                        /\ \A j \in 1 .. Len(kinds) :
                              kinds[j] = "string" => ret.res.item.val.args[j] = toks[j]
            /\ ret.event = "configreloaded" =>
                  ret.res.item = Ok([type |-> "ConfigReloaded", args |-> << >>])
            /\ (ret.event = "windowtitlev2" /\ dp_in = "1a2b,my,title") =>
                  ret.res.item = Ok([type |-> "WindowTitle", args |-> <<<<1, 10, 2, 11>>, "my">>])
            /\ (ret.event = "openwindow" /\ dp_in = "1a2b,1,kitty,vim a,b") =>
                  ret.res.item = Ok([type |-> "OpenWindow",
                                     args |-> <<<<1, 10, 2, 11>>, "1", "kitty", "vim a">>])

C22_Witness ==
    /\ ret.op = "decode"
    /\ ret.event = "windowtitlev2"
    /\ dp_in = "1a2b,my,title"
    /\ ret.res.item.ok
    /\ ret.res.item.val.args[2] = "my"

\* C23 in every state: from the first read of zero bytes on
C23_AfterEof ==
    \A i \in 1 .. Len(reads) :
        (reads[i].ok /\ reads[i].n = 0) =>
            /\ eof
            /\ pc # "done"
            /\ \A j \in i .. Len(reads) :
                  /\ reads[j].n = 0
                  /\ reads[j].buf = ""
                  /\ Len(ItemsOf(j)) = 1
                  /\ ~ItemsOf(j)[1].it.ok
                  /\ reads[j].ok => ItemsOf(j)[1].it = Err("invalid event format")

(***************************************************************************)
(* C23: once a read has returned zero bytes without an error, every later  *)
(* iteration reads an empty line and yields exactly one Err item, which    *)
(* is "invalid event format" when the read returns Ok; the stream yields   *)
(* no Ok event any more and does not end; and it does not wait for the     *)
(* socket: after the peer has closed, a stream that is polled keeps        *)
(* iterating until it is dropped.                                          *)
(***************************************************************************)
C23_EofYieldsInvalidFormatForever ==
    /\ []C23_AfterEof
    /\ (eof /\ pc \in {"loop", "yield"}) ~> (Len(reads) = MaxEofReads \/ pc = "dropped")

C23_Witness ==
    /\ Len(reads) = MaxEofReads
    /\ reads[1].ok /\ reads[1].buf = "fullscreen>>true\n" /\ items[1].it.ok
    /\ reads[2].ok /\ reads[2].n = 0
    /\ \A j \in 2 .. MaxEofReads : items[j] = [it |-> Err("invalid event format"), iter |-> j]
    /\ pc = "loop"

(***************************************************************************)
(* C24: when every fetch of a kind that was issued has completed and its   *)
(* message has been handled, the Bar's workspaces map (or clients list) is *)
(* the snapshot that the most recently issued of them returned.            *)
(***************************************************************************)
C24_NewestFetchWins ==
    \A kind \in {"workspaces", "clients"} :
        LET cs == {c \in 1 .. MaxCalls : calls[c].method.kind = kind}
            newest == CHOOSE c \in cs : \A d \in cs : d <= c
        IN  (/\ cs # {}
             /\ \A c \in 1 .. MaxCalls : calls[c].pc # "idle" => c \in bar.handled
             /\ \A c \in cs : calls[c].res.val.ok) =>
                IF kind = "workspaces"
                THEN bar.workspaces = UpdateWorkspaces(calls[newest].res.val.val)
                ELSE bar.clients = calls[newest].res.val.val

====
